---- MODULE Spec2Model ----
(***************************************************************************)
(* Model of the residency timetable scheduler (allocate_timetable and      *)
(* compute_postprocess).  The CP-SAT search is modelled as a sequence of   *)
(* decisions, one (resident, month) at a time, each kept only when no hard *)
(* constraint is violated under bounds propagation; a complete assignment  *)
(* that satisfies every hard constraint is a solution the solver may       *)
(* return (status OPTIMAL or FEASIBLE).  A model without any solution ends *)
(* with status INFEASIBLE, a search cut by the time limit before it has a  *)
(* solution with status UNKNOWN; both make allocate_timetable return its   *)
(* failure result.                                                         *)
(***************************************************************************)
EXTENDS Integers, Sequences, FiniteSets, TLC

VARIABLES
  residents,                  \* input: sequence of [mcr, career_blocks_completed, resident_year]
  resident_history,           \* input: sequence of history rows
  postings,                   \* input: set of posting rows
  resident_leaves,            \* input: sequence of leave rows
  pinned_assignments,         \* input: sequence of explicit pins [mcr, month_block, posting_code]
  resident_preferences,       \* input: sequence of [mcr, preference_rank, posting_code]
  resident_sr_preferences,    \* input: sequence of [mcr, preference_rank, base_posting]
  weightages,                 \* input: the named weights of the objective
  pins_by_resident,           \* local: mcr -> (month -> posting code), NoCode when absent
  filtered_resident_history,  \* local: the history with the pinned rows removed
  posting_progress,           \* local: mcr -> (code -> blocks completed) over the filtered history
  leave_map,                  \* local: mcr -> (month -> leave meta), NoLeave when absent
  posting_info,               \* local: posting code -> posting row
  career_progress,            \* local: mcr -> completed blocks, stage and stage of each month
  x,                          \* solver: mcr -> sequence over the decided months of sets of codes with x = 1
  off,                        \* solver: mcr -> sequence over the decided months of the off variable
  status,                     \* the status solver.Solve returns, "-" before it returns
  pc,                         \* "idle" (between requests) | "start" | "search" | "done"
  result,                     \* the value allocate_timetable returns
  store,                      \* server: the cached latest_inputs and latest_api_response
  request,                    \* server: the /api/solve request in progress or last served
  response                    \* server: the HTTP status of the last request, 0 before any

vars == <<residents, resident_history, postings, resident_leaves, pinned_assignments,
          resident_preferences, resident_sr_preferences, weightages,
          pins_by_resident, filtered_resident_history, posting_progress, leave_map,
          posting_info, career_progress, x, off, status, pc, result,
          store, request, response>>

inputs == <<residents, resident_history, postings, resident_leaves, pinned_assignments,
            resident_preferences, resident_sr_preferences, weightages>>
locals == <<pins_by_resident, filtered_resident_history, posting_progress, leave_map,
            posting_info, career_progress>>
server == <<store, request, response>>

----------------------------------------------------------------------------
(* Posting codes "Base (Institution)", kept as the two parts the code gets *)
(* by splitting at " (".                                                   *)

Code(b, i) == [base |-> b, inst |-> i]
NoCode == Code("", "")
NoLeave == [leave_type |-> "-", posting_code |-> NoCode]

Posting(b, i, t, cap, d) ==
  [posting_code |-> Code(b, i), posting_type |-> t,
   max_residents |-> cap, required_block_duration |-> d]

\* utils.py constants
CORE_BASES == {"GM", "GRM", "CVM", "RCCM", "MICU", "ED", "NL"}
CORE_REQUIREMENTS ==
  [b \in CORE_BASES |->
     CASE b = "GM" -> 6 [] b = "GRM" -> 2 [] b = "CVM" -> 3 [] b = "RCCM" -> 3
       [] b = "MICU" -> 3 [] b = "ED" -> 1 [] OTHER -> 3]
CCR_ORDER == <<Code("GM", "NUH"), Code("GM", "SGH"), Code("GM", "CGH"), Code("GM", "SKH")>>
CCR_POSTINGS == {CCR_ORDER[k] : k \in 1..Len(CCR_ORDER)}

blocks == 1..12
early_blocks == 1..6
late_blocks == 7..12
DEC == 6
JAN == 7
quarter_starts == {1, 4, 7, 10}

----------------------------------------------------------------------------
(* Helpers of allocate_timetable's set-up section.                         *)

BuildPostingInfo ==
  [c \in {p.posting_code : p \in postings} |-> CHOOSE p \in postings : p.posting_code = c]
posting_codes == DOMAIN posting_info
Dur(c) == posting_info[c].required_block_duration
CORE_POSTINGS == {c \in posting_codes : posting_info[c].posting_type = "core"}
ELECTIVE_POSTINGS == {c \in posting_codes : posting_info[c].posting_type = "elective"}
ELECTIVE_BASE_CODES == {c.base : c \in ELECTIVE_POSTINGS}
ED_codes == {c \in posting_codes : c.base = "ED"}
GRM_codes == {c \in posting_codes : c.base = "GRM"}
GM_codes == {c \in posting_codes : c.base = "GM"}
MICU_codes == {c \in posting_codes : c.base = "MICU"}
RCCM_codes == {c \in posting_codes : c.base = "RCCM"}
Mcrs == {residents[i].mcr : i \in 1..Len(residents)}
Resident(mcr) == residents[CHOOSE i \in 1..Len(residents) : residents[i].mcr = mcr]

\* _normalize_block: the month as an integer, None (0) when it is not one
_normalize_block(b) == IF b \in Int THEN b ELSE 0
\* _truthy: the flag as a boolean
_truthy(v) == v = TRUE

stage_from_blocks(blocks_completed) ==
  IF blocks_completed < 12 THEN 1 ELSE IF blocks_completed < 24 THEN 2 ELSE 3

BuildCareerProgress ==
  [mcr \in Mcrs |->
    LET completed_blocks == Resident(mcr).career_blocks_completed
    IN [completed_blocks |-> completed_blocks,
        stage |-> stage_from_blocks(completed_blocks),
        stages_by_block |-> [b \in blocks |-> stage_from_blocks(completed_blocks + b - 1)],
        blocks_of_stage |->
          [s \in 1..3 |-> {b \in blocks : stage_from_blocks(completed_blocks + b - 1) = s}]]]
stages_by_block(mcr) == career_progress[mcr].stages_by_block
stage1_blocks(mcr) == career_progress[mcr].blocks_of_stage[1]
stage2_blocks(mcr) == career_progress[mcr].blocks_of_stage[2]
stage3_blocks(mcr) == career_progress[mcr].blocks_of_stage[3]
stage2_plus_blocks(mcr) == stage2_blocks(mcr) \cup stage3_blocks(mcr)
stages_present(mcr) == {s \in 1..3 : career_progress[mcr].blocks_of_stage[s] # {}}

\* The pin a row of the history stands for: a current-year, non-leave row with a posting code
IsPinRow(row) ==
  /\ _truthy(row.is_current_year)
  /\ ~_truthy(row.is_leave)
  /\ row.mcr # ""
  /\ _normalize_block(row.month_block) # 0
  /\ row.posting_code # NoCode

\* _record_pin keeps a pin only when the posting and the month are known
ValidPin(e) == e.posting_code \in DOMAIN BuildPostingInfo /\ e.month_block \in blocks

\* every pin recorded, in the order the code records them: explicit pins, then history rows
RecordedPins ==
  SelectSeq(pinned_assignments, LAMBDA e : e.posting_code # NoCode /\ ValidPin(e))
  \o SelectSeq([i \in 1..Len(resident_history) |->
                  [mcr |-> resident_history[i].mcr,
                   month_block |-> resident_history[i].month_block,
                   posting_code |-> resident_history[i].posting_code,
                   pin |-> IsPinRow(resident_history[i])]],
               LAMBDA e : e.pin /\ ValidPin(e))

\* pins_by_resident[mcr][block] = posting: a later pin of the same month replaces an earlier one
LastPin(seq, mcr, b) ==
  LET idx == {i \in 1..Len(seq) : seq[i].mcr = mcr /\ seq[i].month_block = b}
  IN IF idx = {} THEN NoCode
     ELSE seq[CHOOSE i \in idx : \A j \in idx : j <= i].posting_code

BuildPins ==
  LET seq == [i \in 1..Len(RecordedPins) |->
                [mcr |-> RecordedPins[i].mcr, month_block |-> RecordedPins[i].month_block,
                 posting_code |-> RecordedPins[i].posting_code]]
      owners == {seq[i].mcr : i \in 1..Len(seq)}
  IN [m \in owners |-> [b \in blocks |-> LastPin(seq, m, b)]]

FilterHistory == SelectSeq(resident_history, LAMBDA row : ~IsPinRow(row))

\* parse_resident_history: per resident and posting code, the number of non-leave rows
HistoryCodes(hist, mcr) ==
  {hist[i].posting_code : i \in {j \in 1..Len(hist) : hist[j].mcr = mcr /\ ~hist[j].is_leave}}

parse_resident_history(hist) ==
  [m \in {hist[i].mcr : i \in {j \in 1..Len(hist) : ~hist[j].is_leave}} |->
     [c \in HistoryCodes(hist, m) |->
        Cardinality({i \in 1..Len(hist) :
                       hist[i].mcr = m /\ ~hist[i].is_leave /\ hist[i].posting_code = c})]]

\* get_posting_progress, read through the accessors below
blocks_completed(progress, mcr, c) ==
  IF mcr \in DOMAIN progress /\ c \in DOMAIN progress[mcr] THEN progress[mcr][c] ELSE 0

is_completed(progress, mcr, c) ==
  /\ mcr \in DOMAIN progress
  /\ c \in DOMAIN progress[mcr]
  /\ c \in posting_codes
  /\ progress[mcr][c] >= Dur(c)

RECURSIVE SumOver(_, _)
SumOver(f, S) ==
  IF S = {} THEN 0
  ELSE LET e == CHOOSE e \in S : TRUE IN f[e] + SumOver(f, S \ {e})

\* get_core_blocks_completed: blocks of the core-typed codes of the history, by base
get_core_blocks_completed(progress, mcr, base) ==
  IF mcr \notin DOMAIN progress THEN 0
  ELSE SumOver(progress[mcr],
               {c \in DOMAIN progress[mcr] :
                  c \in posting_codes /\ posting_info[c].posting_type = "core" /\ c.base = base})

\* is_unique_posting_completed
is_unique_posting_completed(c, done) ==
  IF c \in posting_codes THEN done >= Dur(c) ELSE FALSE

\* get_unique_electives_completed: the elective codes of the history that are completed
get_unique_electives_completed(progress, mcr) ==
  IF mcr \notin DOMAIN progress THEN {}
  ELSE {c \in DOMAIN progress[mcr] :
          /\ c \in posting_codes
          /\ posting_info[c].posting_type = "elective"
          /\ is_unique_posting_completed(c, progress[mcr][c])}

\* get_ccr_postings_completed (used by the post-processing)
get_ccr_postings_completed(progress, mcr) ==
  {p \in CCR_POSTINGS : p \in posting_codes /\ blocks_completed(progress, mcr, p) = Dur(p)}

\* leave rows the set-up keeps: a resident and a month of the year
ValidLeave(row) == row.mcr # "" /\ row.month_block \in blocks

\* the posting code a leave row reserves: dropped when it is not in the posting table
LeaveCode(row) == IF row.posting_code \in DOMAIN BuildPostingInfo THEN row.posting_code ELSE NoCode

BuildLeaveMap ==
  LET idx(m, b) == {i \in 1..Len(resident_leaves) :
                      /\ ValidLeave(resident_leaves[i])
                      /\ resident_leaves[i].mcr = m
                      /\ resident_leaves[i].month_block = b}
      last(m, b) == resident_leaves[CHOOSE i \in idx(m, b) : \A j \in idx(m, b) : j <= i]
  IN [m \in {resident_leaves[i].mcr : i \in {j \in 1..Len(resident_leaves) : ValidLeave(resident_leaves[j])}} |->
        [b \in blocks |->
           IF idx(m, b) = {} THEN NoLeave
           ELSE [leave_type |-> last(m, b).leave_type, posting_code |-> LeaveCode(last(m, b))]]]

\* no leave row reserves a place
leave_quota_usage_None(p, b) == 0

\* leave_quota_usage[p][b]: the leave rows of month b that name posting p
leave_quota_usage(p, b) ==
  Cardinality({i \in 1..Len(resident_leaves) :
                 /\ ValidLeave(resident_leaves[i])
                 /\ resident_leaves[i].month_block = b
                 /\ LeaveCode(resident_leaves[i]) = p})

is_leave_block(mcr, b) == mcr \in DOMAIN leave_map /\ leave_map[mcr][b] # NoLeave
pinned(mcr, b) == IF mcr \in DOMAIN pins_by_resident THEN pins_by_resident[mcr][b] ELSE NoCode

\* pref_map[mcr][preference_rank] = posting_code: a later row of the same rank replaces
\* an earlier one
pref_map ==
  LET rows == resident_preferences
      of(m) == {i \in 1..Len(rows) : rows[i].mcr = m}
      last(m, k) == CHOOSE i \in of(m) :
                      /\ rows[i].preference_rank = k
                      /\ \A j \in of(m) : rows[j].preference_rank = k => j <= i
  IN [m \in {rows[i].mcr : i \in 1..Len(rows)} |->
        [k \in {rows[i].preference_rank : i \in of(m)} |-> rows[last(m, k)].posting_code]]

\* sr_pref_map[mcr], as the (rank, base) items in the order the dict holds them: a rank
\* enters at its first row with a base, its base is that of its last such row
sr_pref_map(mcr) ==
  LET rows == resident_sr_preferences
      of == {i \in 1..Len(rows) : rows[i].mcr = mcr /\ rows[i].base_posting # ""}
      first == {i \in of : \A j \in of : j < i => rows[j].preference_rank # rows[i].preference_rank}
      last(k) == CHOOSE i \in of :
                   /\ rows[i].preference_rank = k
                   /\ \A j \in of : rows[j].preference_rank = k => j <= i
      order == SelectSeq([i \in 1..Len(rows) |-> i], LAMBDA i : i \in first)
  IN [n \in 1..Len(order) |->
        [rank |-> rows[order[n]].preference_rank,
         base |-> rows[last(rows[order[n]].preference_rank)].base_posting]]

\* variants_for_base: the posting codes of the table with this base
variants_for_base(base) == IF base = "" THEN {} ELSE {p \in posting_codes : p.base = base}

\* the bases of the resident's elective preferences that are elective postings of the table
elective_prefs(mcr) == IF mcr \in DOMAIN pref_map THEN pref_map[mcr] ELSE <<>>
elective_prefs_bases(mcr) ==
  {elective_prefs(mcr)[k].base :
     k \in {j \in DOMAIN elective_prefs(mcr) :
              /\ elective_prefs(mcr)[j] \in posting_codes
              /\ posting_info[elective_prefs(mcr)[j]].posting_type = "elective"}}

\* updated_sr_prefs: the SR bases kept, in order (new_rank is the position). A base is
\* dropped when it has no variant in the table, or when the resident has elective
\* preferences, the base is not among their bases and no variant of it is core
updated_sr_prefs(mcr) ==
  LET is_core_posting(base) ==
        \E p \in variants_for_base(base) : posting_info[p].posting_type = "core"
      any_elective_prefs == \E k \in DOMAIN elective_prefs(mcr) : elective_prefs(mcr)[k] # NoCode
      kept(item) ==
        /\ variants_for_base(item.base) # {}
        /\ ~(any_elective_prefs /\ item.base \notin elective_prefs_bases(mcr)
               /\ ~is_core_posting(item.base))
      items == SelectSeq(sr_pref_map(mcr), kept)
  IN [n \in 1..Len(items) |-> items[n].base]

sr_variants(mcr) ==
  UNION {variants_for_base(updated_sr_prefs(mcr)[n]) : n \in 1..Len(updated_sr_prefs(mcr))}

----------------------------------------------------------------------------
(* The CP model.  xa and oa are (partial) assignments of x and off: for    *)
(* resident r, xa[r][b] is the set of postings p with x[r][p][b] = 1 and   *)
(* oa[r][b] is off[r][b], for the months b decided so far.  A variable not *)
(* yet decided ranges over {0, 1}; a linear constraint is violated when    *)
(* the bounds of its sum exclude its right-hand side.                      *)

Decided(xa, r, b) == b <= Len(xa[r])
Complete(xa, r) == Len(xa[r]) = 12
Bit(v) == IF v THEN 1 ELSE 0
Min(a, b) == IF a <= b THEN a ELSE b
Max(a, b) == IF a >= b THEN a ELSE b

\* bounds of sum(x[r][p][b] for p in P for b in B)
Lb(xa, r, P, B) ==
  Cardinality({pb \in P \X {b \in B : b <= Len(xa[r])} : pb[1] \in xa[r][pb[2]]})
Ub(xa, r, P, B) ==
  Lb(xa, r, P, B) + Cardinality(P) * Cardinality({b \in B : b > Len(xa[r])})

LinEq(xa, r, P, B, c) == Lb(xa, r, P, B) <= c /\ c <= Ub(xa, r, P, B)
LinLe(xa, r, P, B, c) == Lb(xa, r, P, B) <= c

\* posting_asgm_count[r][p] in 0..max_runs with total_blocks == count * required_duration
max_runs(p) == 12 \div Dur(p)
count_lb(xa, r, p) == (Lb(xa, r, {p}, blocks) + Dur(p) - 1) \div Dur(p)
count_ub(xa, r, p) == Min(Ub(xa, r, {p}, blocks) \div Dur(p), max_runs(p))

\* selection_flags[r][p]: 1 iff count >= 1
sel_lb(xa, r, p) == IF count_lb(xa, r, p) >= 1 THEN 1 ELSE 0
sel_ub(xa, r, p) == IF count_ub(xa, r, p) >= 1 THEN 1 ELSE 0

SumCountLb(xa, r, S) == SumOver([p \in S |-> count_lb(xa, r, p)], S)
SumCountUb(xa, r, S) == SumOver([p \in S |-> count_ub(xa, r, p)], S)
SumSelLb(xa, r, S) == SumOver([p \in S |-> sel_lb(xa, r, p)], S)
SumSelUb(xa, r, S) == SumOver([p \in S |-> sel_ub(xa, r, p)], S)

CountLink(xa, r) == \A p \in posting_codes : count_lb(xa, r, p) <= count_ub(xa, r, p)

\* AddAutomaton: the state reached on the first n values, Dead when a transition is missing
Dead == 0 - 1
RECURSIVE AutomatonState(_, _, _, _)
AutomatonState(input, n, start, transitions) ==
  IF n = 0 THEN start
  ELSE LET s == AutomatonState(input, n - 1, start, transitions)
           nxt == {t \in transitions : t[1] = s /\ t[2] = input[n]}
       IN IF s = Dead \/ nxt = {} THEN Dead ELSE (CHOOSE t \in nxt : TRUE)[3]

AddAutomaton(input, start, final_states, transitions) ==
  LET s == AutomatonState(input, Len(input), start, transitions)
  IN s # Dead /\ (Len(input) = 12 => s \in final_states)

\* the 0/1 sequence x[r][p][1..], and the indicator of a group of postings
XSeq(xa, r, p) == [b \in 1..Len(xa[r]) |-> IF p \in xa[r][b] THEN 1 ELSE 0]
GroupSeq(xa, r, G) == [b \in 1..Len(xa[r]) |-> Cardinality(xa[r][b] \cap G)]

\* HC1 with off left out of the sum when the posting is ED (A)
HC1_EdBesideOff(S, o) == Cardinality(S) + Bit(o) = 1 \/ (S = {Code("ED", "A")} /\ o)

\* Hard Constraint 1: exactly one of the postings and OFF, for the values S and o of a month
HC1(S, o) == Cardinality(S) + Bit(o) = 1

\* pinned assignments: x[mcr][p][b] == 1
ApplyPins(xa, r, b) == pinned(r, b) # NoCode => pinned(r, b) \in xa[r][b]

\* the leave blocks left free
LeaveOff_Free(oa, r, b) == is_leave_block(r, b) => oa[r][b] \in BOOLEAN

\* declared leave blocks force OFF
LeaveOff(oa, r, b) == is_leave_block(r, b) => oa[r][b]

\* Hard Constraint 2: capacity of posting p at month b, less the leave reservations
available_capacity(p, b) == Max(posting_info[p].max_residents - leave_quota_usage(p, b), 0)

\* HC2 with one place too many
HC2_OneMore(xa, p, b) ==
  Cardinality({r \in Mcrs : Decided(xa, r, b) /\ p \in xa[r][b]}) <= available_capacity(p, b) + 1

HC2(xa, p, b) ==
  Cardinality({r \in Mcrs : Decided(xa, r, b) /\ p \in xa[r][b]}) <= available_capacity(p, b)

\* Hard Constraint 3: runs of exactly required_block_duration months
RunTransitions(d) ==
  {<<0, 0, 0>>, <<0, 1, 1>>} \cup {<<i, 1, i + 1>> : i \in 1..(d - 1)}
    \cup {<<d, 0, d + 1>>, <<d + 1, 0, d + 1>>, <<d + 1, 1, 1>>}
RunFinalStates(d) == {0, d + 1}

\* HC3 without the run automaton
HC3_NoAutomaton(xa, r) == \A p \in posting_codes : Dur(p) > 1 => Len(XSeq(xa, r, p)) <= 12

HC3(xa, r) ==
  \A p \in posting_codes :
    Dur(p) > 1 =>
      AddAutomaton(XSeq(xa, r, p), 0, RunFinalStates(Dur(p)), RunTransitions(Dur(p)))

\* Hard Constraint 4 (CCR)
offered == {p \in CCR_POSTINGS : p \in posting_codes}
done_ccr(r) == \E c \in CCR_POSTINGS : is_completed(posting_progress, r, c)

\* HC4 without the ban on the stage-1 months
HC4_NoStage1Ban(xa, r) ==
  IF done_ccr(r) \/ stage2_plus_blocks(r) = {}
  THEN \A p \in offered : count_lb(xa, r, p) = 0
  ELSE SumCountLb(xa, r, offered) <= 1 /\ 1 <= SumCountUb(xa, r, offered)

HC4(xa, r) ==
  /\ \A b \in stage1_blocks(r) : \A p \in offered : Decided(xa, r, b) => p \notin xa[r][b]
  /\ IF done_ccr(r) \/ stage2_plus_blocks(r) = {}
     THEN \A p \in offered : count_lb(xa, r, p) = 0
     ELSE SumCountLb(xa, r, offered) <= 1 /\ 1 <= SumCountUb(xa, r, offered)

\* Hard Constraint 5: core postings are not over-assigned
BaseVariants(base) == {p \in posting_codes : p.base = base}

\* HC5 with every quota one block higher
HC5_QuotaPlusOne(xa, r) ==
  \A base \in CORE_BASES :
    LET done == get_core_blocks_completed(posting_progress, r, base)
    IN IF done >= CORE_REQUIREMENTS[base] + 1
       THEN LinEq(xa, r, BaseVariants(base), blocks, 0)
       ELSE LinLe(xa, r, BaseVariants(base), blocks, CORE_REQUIREMENTS[base] + 1 - done)

HC5(xa, r) ==
  \A base \in CORE_BASES :
    LET done == get_core_blocks_completed(posting_progress, r, base)
    IN IF done >= CORE_REQUIREMENTS[base]
       THEN LinEq(xa, r, BaseVariants(base), blocks, 0)
       ELSE LinLe(xa, r, BaseVariants(base), blocks, CORE_REQUIREMENTS[base] - done)

\* Hard Constraint 6: an elective base is not repeated
base_electives_done(r) == {c.base : c \in get_unique_electives_completed(posting_progress, r)}
all_variants(base_elective) ==
  {p \in posting_codes : p.base = base_elective /\ posting_info[p].posting_type = "elective"}

\* HC6 without the ban on the bases done in the history
HC6_NoHistoryBan(xa, r) ==
  \A be \in ELECTIVE_BASE_CODES : SumCountLb(xa, r, all_variants(be)) <= 1

HC6(xa, r) ==
  \A be \in ELECTIVE_BASE_CODES :
    IF be \in base_electives_done(r)
    THEN \A p \in all_variants(be) : count_lb(xa, r, p) = 0
    ELSE SumCountLb(xa, r, all_variants(be)) <= 1

\* Hard Constraint 7a: MICU and RCCM from the same institution
micu_rccm == MICU_codes \cup RCCM_codes

HC7a(xa, r) ==
  \A p1 \in micu_rccm : \A p2 \in micu_rccm :
    p1.inst # p2.inst => sel_lb(xa, r, p1) + sel_lb(xa, r, p2) <= 1

\* the three-state automaton without re-entry: before, in the run, after
ContigTransitions == {<<0, 0, 0>>, <<0, 1, 1>>, <<1, 1, 1>>, <<1, 0, 2>>, <<2, 0, 2>>}

\* Hard Constraint 7b: MICU/RCCM form one contiguous block that does not cross Dec -> Jan
HC7b(xa, r) ==
  LET M == GroupSeq(xa, r, micu_rccm)
  IN /\ Len(M) >= JAN => ~(M[DEC] = 1 /\ M[JAN] = 1)
     /\ AddAutomaton(M, 0, {0, 1, 2}, ContigTransitions)

\* HC8 on months 5 and 6 instead of 6 and 7
HC8_MonthEarly(xa, r) ==
  \A p \in posting_codes :
    Decided(xa, r, DEC) => ~(p \in xa[r][DEC - 1] /\ p \in xa[r][DEC])

\* Hard Constraint 8: no posting in both Dec and Jan
HC8(xa, r) ==
  \A p \in posting_codes :
    Decided(xa, r, JAN) => ~(p \in xa[r][DEC] /\ p \in xa[r][JAN])

\* HC9 with the parity flipped
HC9_EvenStart(xa, r) ==
  \A p \in GRM_codes : \A b \in blocks :
    (b > 1 /\ b % 2 = 1 /\ Decided(xa, r, b) /\ p \in xa[r][b]) => p \in xa[r][b - 1]

\* Hard Constraint 9: GRM starts on odd months
HC9(xa, r) ==
  \A p \in GRM_codes : \A b \in blocks :
    (b > 1 /\ b % 2 = 0 /\ Decided(xa, r, b) /\ p \in xa[r][b]) => p \in xa[r][b - 1]

\* HC10 with every month a permitted start
HC10_AnyStart(xa, r) ==
  \A p \in posting_codes :
    Dur(p) = 3 =>
      \A b \in blocks :
        (b \notin blocks /\ b > 1 /\ Decided(xa, r, b) /\ p \in xa[r][b]) => p \in xa[r][b - 1]

\* Hard Constraint 10: three-month postings start at months 1, 4, 7 or 10
HC10(xa, r) ==
  \A p \in posting_codes :
    Dur(p) = 3 =>
      \A b \in blocks :
        (b \notin quarter_starts /\ b > 1 /\ Decided(xa, r, b) /\ p \in xa[r][b])
          => p \in xa[r][b - 1]

\* Hard Constraint 11: at most 3 GM blocks within the stage-1 months
HC11(xa, r) == stage1_blocks(r) # {} => LinLe(xa, r, GM_codes, stage1_blocks(r), 3)

\* HC12 with re-entry allowed
HC12_ReEntry(xa, r) ==
  AddAutomaton(GroupSeq(xa, r, ED_codes \cup GRM_codes), 0, {0, 1, 2},
               ContigTransitions \cup {<<2, 1, 1>>})

\* Hard Constraint 12: ED/GRM contiguity
HC12(xa, r) ==
  AddAutomaton(GroupSeq(xa, r, ED_codes \cup GRM_codes), 0, {0, 1, 2}, ContigTransitions)

\* Hard Constraint 13: ED/GRM/GM contiguity
HC13(xa, r) ==
  AddAutomaton(GroupSeq(xa, r, ED_codes \cup GRM_codes \cup GM_codes), 0, {0, 1, 2},
               ContigTransitions)

\* Hard Constraint 14: one ED and one GRM selection when neither is done
HC14(xa, r) ==
  LET done_ED == get_core_blocks_completed(posting_progress, r, "ED") >= CORE_REQUIREMENTS["ED"]
      done_GRM == get_core_blocks_completed(posting_progress, r, "GRM") >= CORE_REQUIREMENTS["GRM"]
  IN ~(done_ED \/ done_GRM) =>
       /\ SumSelLb(xa, r, ED_codes) <= 1 /\ 1 <= SumSelUb(xa, r, ED_codes)
       /\ SumSelLb(xa, r, GRM_codes) <= 1 /\ 1 <= SumSelUb(xa, r, GRM_codes)

\* Hard Constraint 15: MICU/RCCM packs by career stage
hist_micu(r) == get_core_blocks_completed(posting_progress, r, "MICU")
hist_rccm(r) == get_core_blocks_completed(posting_progress, r, "RCCM")
first_pack_done(r) == hist_micu(r) = 1 /\ hist_rccm(r) = 2

Pack(xa, r, B, m, c) ==
  \/ LinEq(xa, r, MICU_codes, B, m) /\ LinEq(xa, r, RCCM_codes, B, c)
  \/ LinEq(xa, r, MICU_codes, B, 0) /\ LinEq(xa, r, RCCM_codes, B, 0)

\* HC15 without the stage-2 packs
HC15_NoStage2(xa, r) ==
  /\ (1 \in stages_present(r) /\ stage1_blocks(r) # {}) => Pack(xa, r, stage1_blocks(r), 1, 2)
  /\ 3 \in stages_present(r) =>
       /\ LinEq(xa, r, MICU_codes, blocks, Max(0, 3 - hist_micu(r)))
       /\ LinEq(xa, r, RCCM_codes, blocks, Max(0, 3 - hist_rccm(r)))

HC15(xa, r) ==
  /\ (1 \in stages_present(r) /\ stage1_blocks(r) # {}) => Pack(xa, r, stage1_blocks(r), 1, 2)
  /\ 2 \in stages_present(r) =>
       IF ~first_pack_done(r)
       THEN /\ LinEq(xa, r, MICU_codes, stage1_blocks(r) \cup stage2_blocks(r), 1)
            /\ LinEq(xa, r, RCCM_codes, stage1_blocks(r) \cup stage2_blocks(r), 2)
       ELSE stage2_blocks(r) # {} => Pack(xa, r, stage2_blocks(r), 2, 1)
  /\ 3 \in stages_present(r) =>
       /\ LinEq(xa, r, MICU_codes, blocks, Max(0, 3 - hist_micu(r)))
       /\ LinEq(xa, r, RCCM_codes, blocks, Max(0, 3 - hist_rccm(r)))

\* Hard Constraint 16: balance of posting p within a half of the year
\* bounds of num_assigned: the residents in p at month b
NumLb(xa, p, b) == Cardinality({r \in Mcrs : Decided(xa, r, b) /\ p \in xa[r][b]})
NumUb(xa, p, b) == Cardinality({r \in Mcrs : Decided(xa, r, b) => p \in xa[r][b]})
MaxOf(S) == CHOOSE m \in S : \A n \in S : n <= m
MinOf(S) == CHOOSE m \in S : \A n \in S : m <= n

\* HC16 with a spread of five allowed
HC16_SpreadFive(xa, p, half) ==
  p.base \notin {"GM", "ED"} =>
    MaxOf({NumLb(xa, p, b) : b \in half}) <= MinOf({NumUb(xa, p, b) : b \in half}) + 5

HC16(xa, p, half) ==
  p.base \notin {"GM", "ED"} =>
    MaxOf({NumLb(xa, p, b) : b \in half}) <= MinOf({NumUb(xa, p, b) : b \in half}) + 4

\* Soft Constraint 1, the part that binds: elective minimum for stage 2, at most five by stage 3
SC1(xa, r) ==
  LET hist_count == Cardinality(get_unique_electives_completed(posting_progress, r))
  IN /\ 2 \in stages_present(r) => hist_count + SumSelUb(xa, r, ELECTIVE_POSTINGS) >= 1
     /\ (3 \in stages_present(r) /\ hist_count < 5) =>
          hist_count + SumSelLb(xa, r, ELECTIVE_POSTINGS) <= 5

\* Soft Constraint 2, the part that binds: a stage-3 resident's core base is met or short
SC2(xa, r) ==
  \A base \in CORE_BASES :
    LET hist_done == get_core_blocks_completed(posting_progress, r, base)
    IN (3 \in stages_present(r) /\ hist_done < CORE_REQUIREMENTS[base]) =>
         LinLe(xa, r, BaseVariants(base), blocks, CORE_REQUIREMENTS[base] - hist_done)

\* Soft Constraint 3, the part that binds: at most one SR posting selected, and none in
\* a month whose career block is outside 19..30
SC3(xa, r) ==
  LET V == sr_variants(r)
      completed_blocks == career_progress[r].completed_blocks
  IN V # {} =>
       /\ SumSelLb(xa, r, V) <= 1
       /\ \A b \in blocks :
            (Decided(xa, r, b) /\ (completed_blocks + b < 19 \/ completed_blocks + b > 30))
              => xa[r][b] \cap V = {}

\* the variants of an SR base that earn the SR preference bonus: the core ones, and the
\* elective ones when the resident has no elective preference base
eligible_variants(r, base) ==
  {p \in variants_for_base(base) :
     \/ posting_info[p].posting_type = "core"
     \/ posting_info[p].posting_type = "elective" /\ elective_prefs_bases(r) = {}}

\* SR preference bonus: base_flag is a Boolean equal to the sum of the selection flags
SrBonusFlags(xa, r) ==
  (weightages.preference # 0 /\ sr_variants(r) # {}) =>
    \A n \in 1..Len(updated_sr_prefs(r)) :
      SumSelLb(xa, r, eligible_variants(r, updated_sr_prefs(r)[n])) <= 1

\* the constraints over the variables of one resident and one month
MonthConstraints(xa, oa, r, b) ==
  /\ HC1(xa[r][b], oa[r][b])
  /\ ApplyPins(xa, r, b)
  /\ LeaveOff(oa, r, b)

\* the constraints over the variables of one resident's year
YearConstraints(xa, r) ==
  /\ HC8(xa, r)
  /\ HC9(xa, r)
  /\ HC10(xa, r)
  /\ HC3(xa, r)
  /\ HC7b(xa, r)
  /\ HC12(xa, r)
  /\ HC13(xa, r)
  /\ HC11(xa, r)
  /\ HC5(xa, r)
  /\ CountLink(xa, r)
  /\ HC4(xa, r)
  /\ HC6(xa, r)
  /\ HC7a(xa, r)
  /\ HC14(xa, r)
  /\ HC15(xa, r)
  /\ SC1(xa, r)
  /\ SC2(xa, r)
  /\ SC3(xa, r)
  /\ SrBonusFlags(xa, r)

\* the constraints over all residents that mention month b
half_of(b) == IF b \in early_blocks THEN early_blocks ELSE late_blocks

CohortConstraints(xa, b) ==
  \A p \in posting_codes : HC2(xa, p, b) /\ HC16(xa, p, half_of(b))

HardConstraints(xa, oa) ==
  /\ \A r \in Mcrs : \A b \in 1..Len(xa[r]) : MonthConstraints(xa, oa, r, b)
  /\ \A r \in Mcrs : YearConstraints(xa, r)
  /\ \A b \in blocks : CohortConstraints(xa, b)

----------------------------------------------------------------------------
(* The objective, for a complete assignment xa, oa and the weights w.      *)

gm_ktph_bonus_weight == 1
s2_elective_bonus_weight == 1
core_bonus_weight == 5
three_gm_bonus_weight == 1
early_bundle_bonus_weight == 5
off_penalty_weight == 999

Selected(xa, r, S) == Cardinality({p \in S : sel_lb(xa, r, p) = 1})
Months(xa, r, P, B) == Lb(xa, r, P, B)

gm_ktph_bonus(xa, r) ==
  IF stage1_blocks(r) # {}
  THEN gm_ktph_bonus_weight * Months(xa, r, {Code("GM", "KTPH")} \cap posting_codes, stage1_blocks(r))
  ELSE 0

s2_elective_bonus(xa, r) ==
  LET has_prefs == r \in DOMAIN pref_map
      total == Selected(xa, r, ELECTIVE_POSTINGS)
                 + Cardinality(get_unique_electives_completed(posting_progress, r))
  IN IF 2 \in stages_present(r) /\ has_prefs /\ total >= 2 THEN s2_elective_bonus_weight ELSE 0

preference_bonus(xa, r, w) ==
  LET prefs == elective_prefs(r)
      term == [k \in DOMAIN prefs |->
                 IF prefs[k] # NoCode
                 THEN w.preference * (6 - k) * Selected(xa, r, {prefs[k]} \cap posting_codes)
                 ELSE 0]
  IN SumOver(term, DOMAIN prefs)

sr_preference_bonus(xa, r, w) ==
  LET updated == updated_sr_prefs(r)
      max_rank == Len(updated)
      term == [n \in 1..max_rank |->
                 w.preference * (max_rank + 1 - n)
                   * Selected(xa, r, eligible_variants(r, updated[n]))]
  IN IF w.preference # 0 /\ sr_variants(r) # {} THEN SumOver(term, 1..max_rank) ELSE 0

seniority_bonus(xa, r, w) ==
  SumOver([b \in blocks |-> stages_by_block(r)[b] * Cardinality(xa[r][b]) * w.seniority], blocks)

elective_shortfall_penalty(xa, r, w) ==
  LET hist_count == Cardinality(get_unique_electives_completed(posting_progress, r))
      unmet == hist_count + Selected(xa, r, ELECTIVE_POSTINGS) <= 4
  IN IF 3 \in stages_present(r) /\ hist_count < 5
     THEN w.elective_shortfall_penalty * Bit(unmet) ELSE 0

core_shortfall_penalty(xa, r, w) ==
  LET slack == [base \in CORE_BASES |->
                  LET hist_done == get_core_blocks_completed(posting_progress, r, base)
                      assigned == Months(xa, r, BaseVariants(base), blocks)
                  IN IF hist_done < CORE_REQUIREMENTS[base]
                     THEN Bit(hist_done + assigned <= CORE_REQUIREMENTS[base] - 1) ELSE 0]
  IN IF 3 \in stages_present(r)
     THEN w.core_shortfall_penalty * SumOver(slack, CORE_BASES) ELSE 0

core_bonus(xa, r) == core_bonus_weight * Selected(xa, r, CORE_POSTINGS)

three_gm_bonus(xa, r) ==
  LET hasED == Selected(xa, r, ED_codes) >= 1
      hasGRM == Selected(xa, r, GRM_codes) >= 1
      total_gm == Months(xa, r, GM_codes, blocks)
  IN IF hasED /\ hasGRM /\ total_gm = 3 THEN three_gm_bonus_weight ELSE 0

early_bundle_bonus(xa, r) ==
  LET hasED == Selected(xa, r, ED_codes) >= 1
      hasGRM == Selected(xa, r, GRM_codes) >= 1
      hasGM == Selected(xa, r, GM_codes) >= 1
      bundle == ED_codes \cup GRM_codes \cup GM_codes
      crosses == Months(xa, r, bundle, early_blocks) >= 1 /\ Months(xa, r, bundle, late_blocks) >= 1
  IN IF hasED /\ hasGRM /\ hasGM /\ ~crosses THEN early_bundle_bonus_weight ELSE 0

\* the OFF months not penalised
off_penalty_None(oa, r) == 0 * Cardinality({b \in blocks : oa[r][b]})

off_penalty(oa, r) ==
  off_penalty_weight * Cardinality({b \in blocks : oa[r][b] /\ ~is_leave_block(r, b)})

\* the expression handed to model.Maximize
Objective(xa, oa, w) ==
  SumOver([r \in Mcrs |->
             gm_ktph_bonus(xa, r)
               + s2_elective_bonus(xa, r)
               + preference_bonus(xa, r, w)
               + sr_preference_bonus(xa, r, w)
               + seniority_bonus(xa, r, w)
               - elective_shortfall_penalty(xa, r, w)
               - core_shortfall_penalty(xa, r, w)
               + core_bonus(xa, r)
               + three_gm_bonus(xa, r)
               + early_bundle_bonus(xa, r)
               - off_penalty(oa, r)],
          Mcrs)

----------------------------------------------------------------------------
(* Result processing: the solution entries and compute_postprocess.        *)

\* solution_entries: the posting of a month, empty for an OFF month
assigned_posting(r, b) ==
  IF off[r][b] \/ x[r][b] = {} THEN NoCode ELSE CHOOSE p \in x[r][b] : TRUE

\* the career block the counter starts from: the history's highest, else the resident's own
base_completed(r) ==
  LET h == filtered_resident_history
      hist == {i \in 1..Len(h) : h[i].mcr = r /\ ~h[i].is_current_year}
      non_leave == {i \in hist : ~h[i].is_leave}
      top(S) == CHOOSE v \in {h[i].career_block : i \in S} :
                  \A w \in {h[i].career_block : i \in S} : w <= v
      from_history == IF hist = {} THEN 0
                      ELSE IF non_leave # {} THEN top(non_leave) ELSE top(hist)
  IN IF from_history = 0 THEN career_progress[r].completed_blocks ELSE from_history

\* career_counter after month b: advanced by every assigned, non-leave month
career_counter(r, b) ==
  base_completed(r)
    + Cardinality({m \in 1..b : assigned_posting(r, m) # NoCode /\ ~is_leave_block(r, m)})

history_entry(r, b) ==
  LET leave == is_leave_block(r, b)
      leave_posting_code == IF leave THEN leave_map[r][b].posting_code ELSE NoCode
  IN [mcr |-> r,
      year |-> Resident(r).resident_year,
      month_block |-> b,
      career_block |-> career_counter(r, b),
      posting_code |-> IF leave /\ leave_posting_code # NoCode
                       THEN leave_posting_code ELSE assigned_posting(r, b),
      is_current_year |-> TRUE,
      is_leave |-> leave,
      leave_type |-> IF leave THEN leave_map[r][b].leave_type ELSE ""]

output_history ==
  filtered_resident_history
    \o [k \in 1..(12 * Len(residents)) |->
          history_entry(residents[((k - 1) \div 12) + 1].mcr, ((k - 1) % 12) + 1)]

\* ccr_status of a resident: from the progress of the output history without its leave rows
ccr_status(mcr) ==
  LET updated_resident_progress == parse_resident_history(output_history)
      ccr_postings == get_ccr_postings_completed(updated_resident_progress, mcr)
      first == CHOOSE k \in 1..Len(CCR_ORDER) :
                 /\ CCR_ORDER[k] \in ccr_postings
                 /\ \A j \in 1..(k - 1) : CCR_ORDER[j] \notin ccr_postings
  IN IF ccr_postings # {}
     THEN [completed |-> TRUE, posting_code |-> CCR_ORDER[first]]
     ELSE [completed |-> FALSE, posting_code |-> Code("-", "")]

compute_postprocess ==
  [success |-> TRUE,
   residents |-> [i \in 1..Len(residents) |->
                    [mcr |-> residents[i].mcr,
                     resident_year |-> residents[i].resident_year,
                     career_blocks_completed |-> career_counter(residents[i].mcr, 12),
                     ccr_status |-> ccr_status(residents[i].mcr)]],
   resident_history |-> output_history]

NoResult == [success |-> FALSE, residents |-> <<>>, resident_history |-> <<>>]

\* weightages.get(name) or 0, for each of the six named weights
Weights(pref, sen, el, core, sr, sr_y2) ==
  [preference |-> pref, seniority |-> sen, elective_shortfall_penalty |-> el,
   core_shortfall_penalty |-> core, sr_preference |-> sr, sr_y2_not_selected_penalty |-> sr_y2]
NoWeights == Weights(0, 0, 0, 0, 0, 0)

----------------------------------------------------------------------------
(* Inputs.                                                                 *)

Res(m, c, y) == [mcr |-> m, career_blocks_completed |-> c, resident_year |-> y]

HistRow(m, y, b, cb, code, cur, leave) ==
  [mcr |-> m, year |-> y, month_block |-> b, career_block |-> cb, posting_code |-> code,
   is_current_year |-> cur, is_leave |-> leave, leave_type |-> IF leave THEN "AL" ELSE ""]

Pin(m, b, code) == [mcr |-> m, month_block |-> b, posting_code |-> code]
Pref(m, k, code) == [mcr |-> m, preference_rank |-> k, posting_code |-> code]
SrPref(m, k, base) == [mcr |-> m, preference_rank |-> k, base_posting |-> base]
Leave(m, b, code) == [mcr |-> m, month_block |-> b, leave_type |-> "AL", posting_code |-> code]

GM_KTPH == Code("GM", "KTPH")
GM_NUH == Code("GM", "NUH")
GRM_A == Code("GRM", "A")
ED_A == Code("ED", "A")
MICU_A == Code("MICU", "A")
RCCM_A == Code("RCCM", "A")
CVM_A == Code("CVM", "A")
Cardio_A == Code("Cardio", "A")
Cardio_B == Code("Cardio", "B")
Renal_A == Code("Renal", "A")

\* rows of the posting table
P_GM == Posting("GM", "KTPH", "core", 1, 1)
P_CCR == Posting("GM", "NUH", "core", 1, 1)
P_GRM == Posting("GRM", "A", "core", 1, 2)
P_ED == Posting("ED", "A", "core", 1, 1)
P_MICU == Posting("MICU", "A", "core", 1, 1)
P_RCCM == Posting("RCCM", "A", "core", 1, 1)
P_CVM == Posting("CVM", "A", "core", 1, 3)
P_CardioA == Posting("Cardio", "A", "elective", 1, 1)
P_CardioB == Posting("Cardio", "B", "elective", 1, 1)
P_RenalA == Posting("Renal", "A", "elective", 1, 1)

\* the history of earlier years: one row per month served, in the order given
Past(m, codes) == [i \in 1..Len(codes) |-> HistRow(m, 1, i, i, codes[i], FALSE, FALSE)]

Profile(rs, hist, table) == [residents |-> rs, history |-> hist, table |-> table]

\* a first-year resident, all twelve months in stage 1
Junior == <<Res("r1", 0, 1)>>
JuniorCore == Profile(Junior, <<>>, {P_ED, P_GRM, P_GM})
JuniorICU == Profile(Junior, <<>>, {P_ED, P_GRM, P_MICU, P_RCCM})
JuniorCVM == Profile(Junior, <<>>, {P_ED, P_GRM, P_CVM})

\* six months served: stage 1 until month 6, stage 2 from month 7; no CCR posting done
MidYear ==
  Profile(<<Res("r1", 6, 1)>>,
          Past("r1", <<ED_A, GRM_A, GRM_A, MICU_A, RCCM_A, RCCM_A>>),
          {P_ED, P_GRM, P_MICU, P_RCCM, P_CCR, P_CardioA, P_CardioB})

\* a second-year resident with the first MICU/RCCM pack, a CCR posting and an elective done
SecondYear ==
  Profile(<<Res("r1", 12, 2)>>,
          Past("r1", <<ED_A, GRM_A, GRM_A, MICU_A, RCCM_A, RCCM_A, Cardio_A,
                       GM_NUH, GM_NUH, GM_NUH, GM_NUH, GM_NUH>>),
          {P_ED, P_GRM, P_MICU, P_RCCM, P_CCR, P_CardioA, P_CardioB, P_RenalA})

\* a third-year resident
ThirdYear ==
  Profile(<<Res("r1", 24, 3)>>,
          Past("r1", <<ED_A, GRM_A, GRM_A, MICU_A, MICU_A, MICU_A, RCCM_A, RCCM_A, RCCM_A,
                       GM_NUH, Cardio_A, GM_KTPH, GM_KTPH, GM_KTPH, GM_KTPH>>),
          {P_ED, P_GRM, P_MICU, P_RCCM, P_CCR, P_GM, P_CardioA, P_CVM})

\* six months served and no CCR posting offered: the stage-2 months cannot be filled
NoCcrOffered ==
  Profile(<<Res("r1", 6, 1)>>,
          Past("r1", <<ED_A, GRM_A, GRM_A, MICU_A, RCCM_A, RCCM_A>>),
          {P_ED, P_GRM, P_MICU, P_RCCM, P_CardioA})

Profiles == {JuniorCore, JuniorICU, JuniorCVM, MidYear, SecondYear, ThirdYear, NoCcrOffered}

\* sequences over U of length at most n
SeqsUpTo(U, n) == UNION {[1..k -> U] : k \in 0..n}

\* declared leaves of the junior: a plain one, and one that reserves a GM (KTPH) place
MaxLeaves == 1
LeaveUniverse == {Leave("r1", 2, NoCode), Leave("r1", 7, GM_KTPH)}

----------------------------------------------------------------------------
(* The state machine.                                                      *)

\* Store.__init__: nothing cached; no request seen
None == [none |-> TRUE]
EmptyStore == [latest_inputs |-> None, latest_api_response |-> None]
NoRequest == [pinned_mcrs |-> <<>>, pinned |-> FALSE, before |-> EmptyStore, n |-> 0]

InitFull(rs, hist, table, leaves, pins, prefs, sr_prefs, weights) ==
  /\ residents = rs
  /\ resident_history = hist
  /\ postings = table
  /\ resident_leaves = leaves
  /\ pinned_assignments = pins
  /\ resident_preferences = prefs
  /\ resident_sr_preferences = sr_prefs
  /\ weightages = weights
  /\ pins_by_resident = <<>>
  /\ filtered_resident_history = <<>>
  /\ posting_progress = <<>>
  /\ leave_map = <<>>
  /\ posting_info = <<>>
  /\ career_progress = <<>>
  /\ x = <<>>
  /\ off = <<>>
  /\ status = "-"
  /\ pc = "start"
  /\ result = NoResult
  /\ store = EmptyStore
  /\ request = NoRequest
  /\ response = 0

\* no preferences, every weight 0
InitWith(rs, hist, table, leaves, pins) ==
  InitFull(rs, hist, table, leaves, pins, <<>>, <<>>, NoWeights)

\* one resident: the profiles without leaves, and the junior with declared leaves
Init ==
  \/ \E sc \in Profiles : InitWith(sc.residents, sc.history, sc.table, <<>>, <<>>)
  \/ \E lv \in SeqsUpTo(LeaveUniverse, MaxLeaves) :
       InitWith(JuniorCore.residents, JuniorCore.history, JuniorCore.table, lv, <<>>)

\* allocate_timetable, set-up: pins, filtered history, progress, leaves, fresh variables
BuildModel ==
  /\ pc = "start"
  /\ pins_by_resident' = BuildPins
  /\ filtered_resident_history' = FilterHistory
  /\ posting_progress' = parse_resident_history(FilterHistory)
  /\ leave_map' = BuildLeaveMap
  /\ posting_info' = BuildPostingInfo
  /\ career_progress' = BuildCareerProgress
  /\ x' = [r \in Mcrs |-> <<>>]
  /\ off' = [r \in Mcrs |-> <<>>]
  /\ pc' = "search"
  /\ UNCHANGED <<inputs, status, result, server>>

\* the resident whose next month the search decides: months in order, residents in turn
NextResidentOf(xa) ==
  LET shortest == CHOOSE n \in {Len(xa[r]) : r \in Mcrs} : \A r \in Mcrs : n <= Len(xa[r])
      i == CHOOSE i \in 1..Len(residents) :
             /\ Len(xa[residents[i].mcr]) = shortest
             /\ \A j \in 1..(i - 1) : Len(xa[residents[j].mcr]) > shortest
  IN residents[i].mcr
NextResident == NextResidentOf(x)

\* solver.Solve, one decision: values for x[r][.][b] and off[r][b] that violate no constraint
Assign ==
  /\ pc = "search"
  /\ Mcrs # {}
  /\ LET r == NextResident
     IN /\ Len(x[r]) < 12
        /\ \E S \in SUBSET posting_codes : \E o \in BOOLEAN :
             LET nx == [x EXCEPT ![r] = Append(@, S)]
                 no == [off EXCEPT ![r] = Append(@, o)]
                 b == Len(x[r]) + 1
             IN /\ HC1(S, o)
                /\ MonthConstraints(nx, no, r, b)
                /\ YearConstraints(nx, r)
                /\ CohortConstraints(nx, b)
                /\ x' = nx
                /\ off' = no
  /\ UNCHANGED <<inputs, locals, status, pc, result, server>>

\* a solution: every variable decided, every hard constraint satisfied (an equation, so
\* that it is evaluated as one value)
Solved == TRUE = ((\A r \in Mcrs : Complete(x, r)) /\ HardConstraints(x, off))

\* the assignment xa, oa of the first months of all residents extends to a solution. The
\* search goes month by month: f holds, for every resident, values of the next month
\* that satisfy Hard Constraint 1, kept when no constraint is violated.
\* the assignment with the k-th parts of the values f appended for the first i residents
RECURSIVE ExtendAll(_, _, _, _)
ExtendAll(xa, f, k, i) ==
  IF i = 0 THEN xa
  ELSE [ExtendAll(xa, f, k, i - 1) EXCEPT ![residents[i].mcr] = Append(@, f[residents[i].mcr][k])]

RECURSIVE CanComplete(_, _)
CanComplete(xa, oa) ==
  IF \A r \in Mcrs : Complete(xa, r)
  THEN HardConstraints(xa, oa)
  ELSE \E f \in [Mcrs -> {so \in (SUBSET posting_codes) \X BOOLEAN : HC1(so[1], so[2])}] :
         LET b == Len(xa[NextResidentOf(xa)]) + 1
             nx == ExtendAll(xa, f, 1, Len(residents))
             no == ExtendAll(oa, f, 2, Len(residents))
         IN /\ \A r \in Mcrs : MonthConstraints(nx, no, r, b) /\ YearConstraints(nx, r)
            /\ CohortConstraints(nx, b)
            /\ CanComplete(nx, no)

\* the failure result with the success flag set
Failure_Flagged == [success |-> TRUE, error |-> "Posting allocation service failed"]

\* what allocate_timetable returns on a status other than OPTIMAL and FEASIBLE
Failure == [success |-> FALSE, error |-> "Posting allocation service failed"]

\* solver.Solve ends with a solution. The proof that no better solution exists is not
\* modelled, so either status may come with any solution; the result processing is
\* the same for both.
Return ==
  /\ pc = "search"
  /\ Solved
  /\ status' \in {"OPTIMAL", "FEASIBLE"}
  /\ result' = compute_postprocess
  /\ pc' = "done"
  /\ UNCHANGED <<inputs, locals, x, off, server>>

\* solver.Solve proves that the model has no solution: status INFEASIBLE
ReturnInfeasible ==
  /\ pc = "search"
  /\ \A r \in Mcrs : x[r] = <<>>
  /\ ~CanComplete(x, off)
  /\ status' = "INFEASIBLE"
  /\ result' = Failure
  /\ pc' = "done"
  /\ UNCHANGED <<inputs, locals, x, off, server>>

\* solver.Solve reaches max_time_in_seconds before it has a solution: status UNKNOWN,
\* and the variables hold no values
ReturnUnknown ==
  /\ pc = "search"
  /\ ~Solved
  /\ status' = "UNKNOWN"
  /\ result' = Failure
  /\ pc' = "done"
  /\ x' = [r \in Mcrs |-> <<>>]
  /\ off' = [r \in Mcrs |-> <<>>]
  /\ UNCHANGED <<inputs, locals, server>>

Next == BuildModel \/ Assign \/ Return \/ ReturnInfeasible \/ ReturnUnknown

Spec == Init /\ [][Next]_vars

\* a cohort of first-year residents competing for the places of ED (A) and GRM (A)
MaxCapacity == 2
Cohort == <<Res("r1", 0, 1), Res("r2", 0, 1)>>
CohortTable(c1, c2) == {Posting("ED", "A", "core", c1, 1), Posting("GRM", "A", "core", c2, 2)}

\* ED (A) with no place at all leaves the cohort without a solution
InitCohort ==
  \E c1 \in 0..MaxCapacity : \E c2 \in 1..MaxCapacity :
    InitWith(Cohort, <<>>, CohortTable(c1, c2), <<>>, <<>>)

SpecCohort == InitCohort /\ [][Next]_vars

\* the junior with pins: explicit ones, and current-year rows of the history (two with a
\* posting and a leave row)
MaxPins == 2
PinUniverse == {Pin("r1", 3, GM_KTPH), Pin("r1", 3, ED_A), Pin("r1", 5, GRM_A)}
CurrentRowUniverse ==
  {HistRow("r1", 1, 3, 3, GM_KTPH, TRUE, FALSE), HistRow("r1", 1, 4, 4, ED_A, TRUE, FALSE),
   HistRow("r1", 1, 6, 0, NoCode, TRUE, TRUE)}

InitPins ==
  \E pins \in SeqsUpTo(PinUniverse, MaxPins) : \E rows \in SeqsUpTo(CurrentRowUniverse, MaxPins) :
    InitWith(JuniorCore.residents, rows, JuniorCore.table, <<>>, pins)

SpecPins == InitPins /\ [][Next]_vars

\* scenario S1: one first-year resident and the five core postings, alone or with one
\* pin of GRM (A)
S1 == Profile(Junior, <<>>, {P_GM, P_GRM, P_ED, P_MICU, P_RCCM})
S1Pins == {<<>>, <<Pin("r1", 2, GRM_A)>>, <<Pin("r1", 12, GRM_A)>>}

InitS1 == \E pins \in S1Pins : InitWith(S1.residents, S1.history, S1.table, <<>>, pins)

SpecS1 == InitS1 /\ [][Next]_vars

\* the second-year resident (career blocks 13..24 in the year) with an SR preference for
\* Renal: alone, beside an elective preference for Cardio (B), and with a pin of
\* Renal (A) at month 1; and a third-year resident with one MICU and two RCCM blocks
\* served and an SR preference for the core base MICU
SrWeights == Weights(1, 0, 0, 0, 1, 3)
SrCore ==
  Profile(<<Res("r1", 24, 3)>>,
          Past("r1", <<ED_A, GRM_A, GRM_A, GM_NUH, Cardio_A, MICU_A, RCCM_A, RCCM_A>>),
          {P_ED, P_GRM, P_MICU, P_RCCM, P_CCR, P_CardioA})
SrInput(prefs, sr_prefs, pins) == [prefs |-> prefs, sr_prefs |-> sr_prefs, pins |-> pins]
SrInputs ==
  {SrInput(<<>>, <<>>, <<>>),
   SrInput(<<>>, <<SrPref("r1", 1, "Renal")>>, <<>>),
   SrInput(<<Pref("r1", 1, Cardio_B)>>, <<SrPref("r1", 1, "Renal")>>, <<>>),
   SrInput(<<>>, <<SrPref("r1", 1, "Renal")>>, <<Pin("r1", 1, Renal_A)>>)}

InitSR ==
  \/ \E in \in SrInputs :
       InitFull(SecondYear.residents, SecondYear.history, SecondYear.table, <<>>, in.pins,
                in.prefs, in.sr_prefs, SrWeights)
  \/ InitFull(SrCore.residents, SrCore.history, SrCore.table, <<>>, <<>>, <<>>,
              <<SrPref("r1", 1, "MICU")>>, SrWeights)

SpecSR == InitSR /\ [][Next]_vars

\* residents at the MICU/RCCM packs: the table of the packs, and histories that differ in
\* the MICU and RCCM blocks served
PackTable == {P_ED, P_GRM, P_GM, P_MICU, P_RCCM, P_CCR, P_CardioA}
PackPast(micu, rccm) ==
  <<ED_A, GRM_A, GRM_A, GM_NUH, Cardio_A>>
    \o [i \in 1..micu |-> MICU_A] \o [i \in 1..rccm |-> RCCM_A]

\* six months served and no pack yet: stage 1 until month 6, stage 2 from month 7
PackDue ==
  Profile(<<Res("r1", 6, 1)>>, Past("r1", <<ED_A, GRM_A, GRM_A, CVM_A, CVM_A, CVM_A>>),
          PackTable \ {P_GM})
\* eighteen months served (stage 2 until month 6, stage 3 from month 7), first pack done
SecondPackDue == Profile(<<Res("r1", 18, 2)>>, Past("r1", PackPast(1, 2)), PackTable)
\* eighteen months served, both packs done
BothPacksDone == Profile(<<Res("r1", 18, 2)>>, Past("r1", PackPast(3, 3)), PackTable)
\* a third-year resident with the first pack done
ThirdYearPack == Profile(<<Res("r1", 24, 3)>>, Past("r1", PackPast(1, 2)), PackTable)

PackProfiles == {PackDue, SecondPackDue, BothPacksDone, ThirdYearPack}

InitPack == \E sc \in PackProfiles : InitWith(sc.residents, sc.history, sc.table, <<>>, <<>>)

SpecPack == InitPack /\ [][Next]_vars

\* five first-year residents and postings with a place for each of them. The pins fix the
\* ED (A) and GRM (A) months of all five and put four of them on Renal (A) at month 1; the
\* fifth is free in the other months, or pinned to Renal (A) at month 1 as well
BalanceCohort ==
  <<Res("r1", 0, 1), Res("r2", 0, 1), Res("r3", 0, 1), Res("r4", 0, 1), Res("r5", 0, 1)>>
BalanceTable ==
  {Posting("ED", "A", "core", 5, 1), Posting("GRM", "A", "core", 5, 2),
   Posting("Renal", "A", "elective", 5, 1)}
BundlePins(m, e) == <<Pin(m, e, ED_A), Pin(m, e + 1, GRM_A)>>
BalancePins ==
  <<Pin("r1", 1, Renal_A), Pin("r2", 1, Renal_A), Pin("r3", 1, Renal_A), Pin("r4", 1, Renal_A)>>
    \o BundlePins("r1", 2) \o BundlePins("r2", 2) \o BundlePins("r3", 2) \o BundlePins("r4", 2)
    \o BundlePins("r5", 4)

InitBalance ==
  \E pins \in {BalancePins, BalancePins \o <<Pin("r5", 1, Renal_A)>>} :
    InitWith(BalanceCohort, <<>>, BalanceTable, <<>>, pins)

SpecBalance == InitBalance /\ [][Next]_vars

\* the cohort with leaves at month 3 that name GRM (A): one leave or one of each resident,
\* against one or two places of GRM (A); and ED (A) without a place
LeaveInput(c1, c2, leaves) == [c1 |-> c1, c2 |-> c2, leaves |-> leaves]
LeaveInputs ==
  {LeaveInput(2, 1, <<Leave("r1", 3, GRM_A)>>),
   LeaveInput(2, 2, <<Leave("r1", 3, GRM_A)>>),
   LeaveInput(2, 1, <<Leave("r1", 3, GRM_A), Leave("r2", 3, GRM_A)>>),
   LeaveInput(0, 1, <<Leave("r1", 3, GRM_A)>>)}

InitLeave ==
  \E in \in LeaveInputs : InitWith(Cohort, <<>>, CohortTable(in.c1, in.c2), in.leaves, <<>>)

SpecLeave == InitLeave /\ [][Next]_vars

----------------------------------------------------------------------------
(* The /api/solve handler of main.py around the allocator, and the input   *)
(* preparation of preprocessing.py.  A form carries its files as the rows  *)
(* they are read and formatted into (None when no file is sent) and the    *)
(* pinned_mcrs field; it sends no weightages and no max_time_in_minutes.   *)

\* parse_pinned_list: the entries that are not empty
parse_pinned_list(raw) == SelectSeq(raw, LAMBDA m : m # "")

\* preprocess_initial_upload: the formatted rows of the files; no weightages sent
preprocess_initial_upload(form) ==
  [residents |-> form.files.residents,
   resident_history |-> form.files.resident_history,
   resident_preferences |-> form.files.resident_preferences,
   resident_sr_preferences |-> form.files.resident_sr_preferences,
   postings |-> form.files.postings,
   weightages |-> NoWeights,
   resident_leaves |-> form.files.resident_leaves,
   pinned_assignments |-> <<>>,
   max_time_in_minutes |-> None]

\* every resident's pins sorted by month_block (list.sort, stable)
RECURSIVE SortedByMonth(_)
SortedByMonth(seq) ==
  IF seq = <<>> THEN <<>>
  ELSE LET m == MinOf({seq[i].month_block : i \in 1..Len(seq)})
       IN SelectSeq(seq, LAMBDA e : e.month_block = m)
            \o SortedByMonth(SelectSeq(seq, LAMBDA e : e.month_block # m))

\* the leaves deduplicated by (mcr, month_block): the first of each key is kept
RECURSIVE deduped_leaves(_)
deduped_leaves(seq) ==
  IF seq = <<>> THEN <<>>
  ELSE LET init == SubSeq(seq, 1, Len(seq) - 1)
           row == seq[Len(seq)]
       IN IF \/ row.mcr = ""
             \/ \E i \in 1..Len(init) :
                  init[i].mcr = row.mcr /\ init[i].month_block = row.month_block
          THEN deduped_leaves(init)
          ELSE Append(deduped_leaves(init),
                      [mcr |-> row.mcr, month_block |-> row.month_block,
                       leave_type |-> row.leave_type, posting_code |-> row.posting_code])

\* build_pinned_run_input: the solver input of a pinned re-solve, from the cached values
build_pinned_run_input(latest_inputs, latest_api_response, pinned_mcrs) ==
  LET pinned_set == {pinned_mcrs[i] : i \in 1..Len(pinned_mcrs)} \ {""}
      history == latest_api_response.resident_history
      current == SelectSeq(history, LAMBDA row : _truthy(row.is_current_year))
      derived_leaves ==
        LET rows == SelectSeq(current, LAMBDA row : _truthy(row.is_leave))
        IN [i \in 1..Len(rows) |->
              [mcr |-> rows[i].mcr, month_block |-> rows[i].month_block,
               leave_type |-> rows[i].leave_type, posting_code |-> rows[i].posting_code]]
      pinned_rows ==
        SelectSeq(current, LAMBDA row : /\ ~_truthy(row.is_leave)
                                        /\ row.mcr # ""
                                        /\ row.mcr \in pinned_set
                                        /\ row.posting_code # NoCode)
      pins == [i \in 1..Len(pinned_rows) |->
                 [mcr |-> pinned_rows[i].mcr, month_block |-> pinned_rows[i].month_block,
                  posting_code |-> pinned_rows[i].posting_code]]
      merged(key) ==
        IF key \in DOMAIN latest_api_response THEN latest_api_response[key]
        ELSE IF latest_inputs # None /\ key \in DOMAIN latest_inputs THEN latest_inputs[key]
        ELSE <<>>
  IN [residents |-> merged("residents"),
      resident_history |-> SelectSeq(history, LAMBDA row : ~_truthy(row.is_current_year)),
      resident_preferences |-> merged("resident_preferences"),
      resident_sr_preferences |-> merged("resident_sr_preferences"),
      postings |-> merged("postings"),
      weightages |-> latest_api_response.weightages,
      resident_leaves |-> deduped_leaves(merged("resident_leaves") \o derived_leaves),
      pinned_assignments |-> SortedByMonth(pins),
      max_time_in_minutes |-> None]

\* the response of a successful solve: the post-processed result with the inputs it echoes
final_result ==
  [success |-> TRUE,
   residents |-> result.residents,
   resident_history |-> result.resident_history,
   resident_preferences |-> resident_preferences,
   resident_sr_preferences |-> resident_sr_preferences,
   postings |-> postings,
   resident_leaves |-> resident_leaves,
   weightages |-> weightages]

\* allocate_timetable is called with the fields of the solver payload (the
\* max_time_in_minutes that main.py also passes is no parameter of the allocator and is
\* left aside)
CallAllocator(solver_payload) ==
  /\ residents' = solver_payload.residents
  /\ resident_history' = solver_payload.resident_history
  /\ resident_preferences' = solver_payload.resident_preferences
  /\ resident_sr_preferences' = solver_payload.resident_sr_preferences
  /\ postings' = solver_payload.postings
  /\ weightages' = solver_payload.weightages
  /\ resident_leaves' = solver_payload.resident_leaves
  /\ pinned_assignments' = solver_payload.pinned_assignments
  /\ pins_by_resident' = <<>>
  /\ filtered_resident_history' = <<>>
  /\ posting_progress' = <<>>
  /\ leave_map' = <<>>
  /\ posting_info' = <<>>
  /\ career_progress' = <<>>
  /\ x' = <<>>
  /\ off' = <<>>
  /\ status' = "-"
  /\ result' = NoResult
  /\ response' = 0
  /\ pc' = "start"

\* the forms of the requests: a first-year resident with ED (A) and GRM (A) to take, a
\* resident whose MICU/RCCM history admits no year, or no files; no resident or r1 pinned
MaxRequests == 2
ServerFiles(profile) ==
  [residents |-> profile.residents, resident_history |-> profile.history,
   resident_preferences |-> <<>>, resident_sr_preferences |-> <<>>,
   postings |-> profile.table, resident_leaves |-> <<>>]
FirstBundle == Profile(Junior, <<>>, {P_ED, P_GRM})
Forms ==
  [files : {None, ServerFiles(FirstBundle), ServerFiles(BothPacksDone)},
   pinned_mcrs : {<<>>, <<"r1">>}]

Accepted(form, has_pinned) ==
  [pinned_mcrs |-> form.pinned_mcrs, pinned |-> has_pinned, before |-> store,
   n |-> request.n + 1]

\* solve with has_pinned and has_cached_run: the input is built from the cached values and
\* the cached inputs are not refreshed
SolvePinned ==
  /\ pc = "idle"
  /\ request.n < MaxRequests
  /\ \E form \in Forms :
       /\ parse_pinned_list(form.pinned_mcrs) # <<>>
       /\ store.latest_api_response # None
       /\ request' = Accepted(form, TRUE)
       /\ store' = store
       /\ CallAllocator(build_pinned_run_input(store.latest_inputs, store.latest_api_response,
                                               parse_pinned_list(form.pinned_mcrs)))

\* solve otherwise: the input is read from the files, a copy of it becomes
\* store.latest_inputs, and the allocator is called
SolveUpload ==
  /\ pc = "idle"
  /\ request.n < MaxRequests
  /\ \E form \in Forms :
       /\ ~(parse_pinned_list(form.pinned_mcrs) # <<>> /\ store.latest_api_response # None)
       /\ form.files # None
       /\ request' = Accepted(form, FALSE)
       /\ store' = [store EXCEPT !.latest_inputs = preprocess_initial_upload(form)]
       /\ CallAllocator(preprocess_initial_upload(form))

\* solve otherwise, a required file missing: require_upload raises HTTP 400
SolveRejected ==
  /\ pc = "idle"
  /\ request.n < MaxRequests
  /\ \E form \in Forms :
       /\ ~(parse_pinned_list(form.pinned_mcrs) # <<>> /\ store.latest_api_response # None)
       /\ form.files = None
       /\ request' = Accepted(form, FALSE)
  /\ response' = 400
  /\ UNCHANGED <<inputs, locals, x, off, status, pc, result, store>>

\* the allocator has returned: HTTP 500 on a failure, else the result is cached and sent
SolveRespond ==
  /\ pc = "done"
  /\ IF ~result.success
     THEN response' = 500 /\ store' = store
     ELSE response' = 200 /\ store' = [store EXCEPT !.latest_api_response = final_result]
  /\ pc' = "idle"
  /\ UNCHANGED <<inputs, locals, x, off, status, result, request>>

\* the server after start-up: nothing cached, no call made
InitServer ==
  /\ residents = <<>>
  /\ resident_history = <<>>
  /\ postings = {}
  /\ resident_leaves = <<>>
  /\ pinned_assignments = <<>>
  /\ resident_preferences = <<>>
  /\ resident_sr_preferences = <<>>
  /\ weightages = NoWeights
  /\ pins_by_resident = <<>>
  /\ filtered_resident_history = <<>>
  /\ posting_progress = <<>>
  /\ leave_map = <<>>
  /\ posting_info = <<>>
  /\ career_progress = <<>>
  /\ x = <<>>
  /\ off = <<>>
  /\ status = "-"
  /\ pc = "idle"
  /\ result = NoResult
  /\ store = EmptyStore
  /\ request = NoRequest
  /\ response = 0

NextServer ==
  \/ SolveUpload \/ SolvePinned \/ SolveRejected
  \/ BuildModel \/ Assign \/ Return \/ ReturnInfeasible \/ ReturnUnknown
  \/ SolveRespond

SpecServer == InitServer /\ [][NextServer]_vars

----------------------------------------------------------------------------
(* Properties of the returned solution.                                    *)

Returned == pc = "done" /\ result.success

\* the rows of the returned history for resident r and month b of the year solved
CurrentRows(r, b) ==
  {i \in DOMAIN result.resident_history :
     /\ result.resident_history[i].mcr = r
     /\ result.resident_history[i].month_block = b
     /\ result.resident_history[i].is_current_year}

\* a maximal run of posting set G for resident r starts at month b, and its length
RunStart(r, G, b) == x[r][b] \cap G # {} /\ (b = 1 \/ x[r][b - 1] \cap G = {})
RunLength(r, G, b) ==
  CHOOSE n \in 1..12 :
    /\ \A k \in 0..(n - 1) : b + k <= 12 /\ x[r][b + k] \cap G # {}
    /\ (b + n > 12 \/ x[r][b + n] \cap G = {})
MonthsOn(r, G) == Cardinality({b \in blocks : x[r][b] \cap G # {}})

C2_Capacity ==
  Returned =>
    \A p \in posting_codes : \A b \in blocks :
      Cardinality({r \in Mcrs : p \in x[r][b]}) <= posting_info[p].max_residents

\* two residents share a posting of capacity 2 in one month, and a posting of
\* capacity 1 is taken by each of them in different months
C2_Witness ==
  /\ Returned
  /\ \E p \in posting_codes : \E b \in blocks :
       posting_info[p].max_residents = 2 /\ Cardinality({r \in Mcrs : p \in x[r][b]}) = 2
  /\ \E p \in posting_codes :
       /\ posting_info[p].max_residents = 1
       /\ \A r \in Mcrs : \E b \in blocks : p \in x[r][b]

\* C3: in a returned solution every maximal run of a posting p of duration d > 1
\* has length exactly d, and the months on p are count[r][p] * d.
C3_RunLength ==
  Returned =>
    \A r \in Mcrs : \A p \in posting_codes :
      Dur(p) > 1 =>
        /\ \A b \in blocks : RunStart(r, {p}, b) => RunLength(r, {p}, b) = Dur(p)
        /\ count_lb(x, r, p) = count_ub(x, r, p)
        /\ MonthsOn(r, {p}) = count_lb(x, r, p) * Dur(p)

\* a returned year with a run of a 2-month posting and one with a run of a 3-month posting
C3_Witness ==
  /\ Returned
  /\ \E r \in Mcrs : \E p \in posting_codes : \E b \in blocks :
       Dur(p) = 3 /\ RunStart(r, {p}, b) /\ RunLength(r, {p}, b) = 3
  /\ \E r \in Mcrs : \E p \in posting_codes : \E b \in blocks :
       Dur(p) = 2 /\ RunStart(r, {p}, b) /\ RunLength(r, {p}, b) = 2

\* C4: in a returned solution no resident has the same posting in months 6 and 7,
\* and no resident has a MICU or RCCM posting in both months 6 and 7.
C4_NoDecJan ==
  Returned =>
    \A r \in Mcrs :
      /\ \A p \in posting_codes : ~(p \in x[r][6] /\ p \in x[r][7])
      /\ ~(x[r][6] \cap micu_rccm # {} /\ x[r][7] \cap micu_rccm # {})

\* a returned year with postings in both months 6 and 7, a MICU/RCCM posting in month 6
C4_Witness ==
  /\ Returned
  /\ \E r \in Mcrs : x[r][6] \cap micu_rccm # {} /\ x[r][7] # {}

\* the months of the earlier years that resident r served on posting c, leave rows excluded
PastBlocks(r, C) ==
  Cardinality({i \in DOMAIN resident_history :
                 /\ resident_history[i].mcr = r
                 /\ ~resident_history[i].is_leave
                 /\ ~resident_history[i].is_current_year
                 /\ resident_history[i].posting_code \in C})
PastCompleted(r, c) == c \in posting_codes /\ PastBlocks(r, {c}) >= Dur(c)
\* the runs of the postings of G in the year of resident r
RunCount(r, G) == Cardinality({pb \in G \X blocks : RunStart(r, {pb[1]}, pb[2])})
ElectiveVariants(base) ==
  {p \in posting_codes : p.base = base /\ posting_info[p].posting_type = "elective"}
ElectiveBases == {p.base : p \in {q \in posting_codes : posting_info[q].posting_type = "elective"}}
StageAt(r, b) == stage_from_blocks(Resident(r).career_blocks_completed + b - 1)

\* C5: in a returned solution, for every resident and elective base: when the history
\* (leave rows excluded) holds a completed variant of the base no variant is assigned in
\* any month, otherwise the runs of all variants of the base together are at most one.
C5_ElectiveOnce ==
  Returned =>
    \A r \in Mcrs : \A base \in ElectiveBases :
      IF \E c \in ElectiveVariants(base) : PastCompleted(r, c)
      THEN MonthsOn(r, ElectiveVariants(base)) = 0
      ELSE RunCount(r, ElectiveVariants(base)) <= 1

\* a returned year of a resident with one base done and left out, and another base,
\* not done, taken once
C5_Witness ==
  /\ Returned
  /\ \E r \in Mcrs : \E b1 \in ElectiveBases : \E b2 \in ElectiveBases :
       /\ \E c \in ElectiveVariants(b1) : PastCompleted(r, c)
       /\ MonthsOn(r, ElectiveVariants(b1)) = 0
       /\ \A c \in ElectiveVariants(b2) : ~PastCompleted(r, c)
       /\ RunCount(r, ElectiveVariants(b2)) = 1

C7_CoreQuota ==
  Returned =>
    \A r \in Mcrs : \A base \in CORE_BASES :
      LET variants == {p \in posting_codes : p.base = base}
          hist == PastBlocks(r, variants)
          assigned == Cardinality({pb \in variants \X blocks : pb[1] \in x[r][pb[2]]})
      IN /\ hist + assigned <= CORE_REQUIREMENTS[base]
         /\ hist >= CORE_REQUIREMENTS[base] => assigned = 0

\* a returned year beyond stage 1 that fills the rest of one quota, with another base
\* already at its quota
C7_Witness ==
  /\ Returned
  /\ \E r \in Mcrs : \E b1 \in CORE_BASES : \E b2 \in CORE_BASES :
       LET v1 == {p \in posting_codes : p.base = b1}
           v2 == {p \in posting_codes : p.base = b2}
       IN /\ StageAt(r, 1) >= 2
          /\ PastBlocks(r, v1) > 0
          /\ MonthsOn(r, v1) > 0
          /\ PastBlocks(r, v1) + MonthsOn(r, v1) = CORE_REQUIREMENTS[b1]
          /\ v2 # {} /\ PastBlocks(r, v2) >= CORE_REQUIREMENTS[b2] /\ MonthsOn(r, v2) = 0

\* C8: in a returned solution every maximal run of months on a GRM variant starts in an
\* odd month.
C8_GrmOddStart ==
  Returned =>
    \A r \in Mcrs : \A b \in blocks : RunStart(r, GRM_codes, b) => b % 2 = 1

\* a returned year whose GRM run starts after month 1
C8_Witness ==
  Returned /\ \E r \in Mcrs : \E b \in blocks : b > 1 /\ RunStart(r, GRM_codes, b)

\* C9: in a returned solution every run of a posting of duration 3 starts in month 1, 4,
\* 7 or 10.
C9_QuarterStart ==
  Returned =>
    \A r \in Mcrs : \A p \in posting_codes : \A b \in blocks :
      (Dur(p) = 3 /\ RunStart(r, {p}, b)) => b \in {1, 4, 7, 10}

\* a returned year whose 3-month run starts after month 1
C9_Witness ==
  Returned /\ \E r \in Mcrs : \E p \in posting_codes : \E b \in blocks :
    Dur(p) = 3 /\ b > 1 /\ RunStart(r, {p}, b)

\* every pin given: the explicit ones and the non-leave current-year rows of the history
GivenPins ==
  {pinned_assignments[i] : i \in DOMAIN pinned_assignments}
    \cup {Pin(resident_history[i].mcr, resident_history[i].month_block,
              resident_history[i].posting_code) :
            i \in {j \in DOMAIN resident_history :
                     resident_history[j].is_current_year /\ ~resident_history[j].is_leave}}

\* C10: for every pin (mcr, month, posting) with mcr in the cohort, month in 1..12 and
\* posting in the posting table, given explicitly or by a non-leave current-year history
\* row, a returned solution has the resident on that posting in that month and the
\* returned history has the current-year row of (mcr, month) with that posting code.
C10_EveryPinHonoured ==
  Returned =>
    \A pin \in GivenPins :
      (pin.mcr \in Mcrs /\ pin.month_block \in blocks /\ pin.posting_code \in posting_codes) =>
        /\ pin.posting_code \in x[pin.mcr][pin.month_block]
        /\ \E i \in CurrentRows(pin.mcr, pin.month_block) :
             result.resident_history[i].posting_code = pin.posting_code

\* the career block of the returned current-year row of month b, and the value the
\* counter has before month b
RowCareerBlock(r, b) ==
  result.resident_history[CHOOSE i \in CurrentRows(r, b) : TRUE].career_block
CounterBefore(r, b) == IF b = 1 THEN base_completed(r) ELSE RowCareerBlock(r, b - 1)

\* C11: for every declared leave (mcr in the cohort, month in 1..12) a returned solution
\* has off[mcr][month] = 1 and no posting for the resident that month; the returned row of
\* the month has is_leave and is_current_year set, carries the leave's posting code and
\* leave type, and its career block is the counter's value before the month.
C11_LeaveHonoured ==
  Returned =>
    \A k \in DOMAIN resident_leaves :
      LET lv == resident_leaves[k]
      IN (lv.mcr \in Mcrs /\ lv.month_block \in blocks) =>
           /\ off[lv.mcr][lv.month_block]
           /\ x[lv.mcr][lv.month_block] = {}
           /\ Cardinality(CurrentRows(lv.mcr, lv.month_block)) = 1
           /\ \A i \in CurrentRows(lv.mcr, lv.month_block) :
                LET row == result.resident_history[i]
                IN /\ row.is_leave
                   /\ row.is_current_year
                   /\ row.posting_code = lv.posting_code
                   /\ row.leave_type = lv.leave_type
                   /\ row.career_block = CounterBefore(lv.mcr, lv.month_block)

\* a returned year with a leave that names a posting, after months that advanced the counter
C11_Witness ==
  /\ Returned
  /\ \E k \in DOMAIN resident_leaves :
       LET lv == resident_leaves[k]
       IN /\ lv.posting_code # NoCode
          /\ off[lv.mcr][lv.month_block]
          /\ \E i \in CurrentRows(lv.mcr, lv.month_block) :
               /\ result.resident_history[i].posting_code = lv.posting_code
               /\ result.resident_history[i].is_leave
               /\ result.resident_history[i].career_block > base_completed(lv.mcr)

\* C12: with the single first-year resident and the posting table of scenario S1, a pin
\* of GRM (A) at month 2 leaves no assignment that satisfies the hard constraints, and
\* allocate_timetable returns failure.
C12_EvenGrmPinFails ==
  (pc = "done" /\ pinned_assignments = <<Pin("r1", 2, GRM_A)>> /\ postings = S1.table)
    => ~result.success

\* the ED, GRM and GM postings of the table
Bundle == ED_codes \cup GRM_codes \cup GM_codes

\* C13: no returned solution has a resident's ED/GRM/GM bundle across the December-January
\* boundary, that is, on a posting of the bundle in both month 6 and month 7.
C13_BundleNotAcrossDecJan ==
  Returned => \A r \in Mcrs : ~(x[r][DEC] \cap Bundle # {} /\ x[r][JAN] \cap Bundle # {})

\* the input of scenario S1: no history, no preferences, no pins, no leaves, every weight 0
IsS1 ==
  /\ residents = S1.residents
  /\ resident_history = <<>>
  /\ postings = S1.table
  /\ resident_leaves = <<>>
  /\ pinned_assignments = <<>>
  /\ resident_preferences = <<>>
  /\ resident_sr_preferences = <<>>
  /\ weightages = NoWeights

\* the largest objective of scenario S1: five core postings selected, three GM (KTPH)
\* months, the three-GM and the early-bundle bonus, three OFF months
S1Optimum ==
  core_bonus_weight * 5 + gm_ktph_bonus_weight * 3 + three_gm_bonus_weight
    + early_bundle_bonus_weight - off_penalty_weight * 3

\* C14: in scenario S1 no solution has an objective above S1Optimum, and every solution
\* that attains it has exactly 3 months of GM (KTPH), 2 of RCCM (A) and 1 of MICU (A), the
\* MICU/RCCM months contiguous and not on both months 6 and 7.
C14_S1Maximal ==
  (Returned /\ IsS1) =>
    /\ Objective(x, off, weightages) <= S1Optimum
    /\ Objective(x, off, weightages) = S1Optimum =>
         /\ MonthsOn("r1", {GM_KTPH}) = 3
         /\ MonthsOn("r1", {RCCM_A}) = 2
         /\ MonthsOn("r1", {MICU_A}) = 1
         /\ Cardinality({b \in blocks : RunStart("r1", {MICU_A, RCCM_A}, b)}) = 1
         /\ ~(x["r1"][6] \cap {MICU_A, RCCM_A} # {} /\ x["r1"][7] \cap {MICU_A, RCCM_A} # {})

\* a solution of scenario S1 that attains S1Optimum
C14_Witness == Returned /\ IsS1 /\ Objective(x, off, weightages) = S1Optimum

\* the bases resident r names in the SR preferences
SrPreferenceBases(r) ==
  {resident_sr_preferences[i].base_posting :
     i \in {j \in DOMAIN resident_sr_preferences :
              /\ resident_sr_preferences[j].mcr = r
              /\ resident_sr_preferences[j].base_posting # ""}}
SrPostings(r) == {p \in posting_codes : p.base \in SrPreferenceBases(r)}

\* C15: in a returned solution, for every resident with an SR preference and every month
\* b in which the resident is on a variant of one of the SR-preference bases, the career
\* block career_blocks_completed + b is within 19..30.
C15_SrWindow ==
  Returned =>
    \A r \in Mcrs : \A b \in blocks :
      x[r][b] \cap SrPostings(r) # {} =>
        Resident(r).career_blocks_completed + b \in 19..30

\* C16: every current-year row of the input history is consumed before solving and is
\* absent from the history the solve works on, and the returned history has, for every
\* resident and month 1..12, exactly one row with is_current_year set.
C16_OneCurrentRowPerMonth ==
  Returned =>
    /\ \A i \in DOMAIN filtered_resident_history :
         ~filtered_resident_history[i].is_current_year
    /\ \A r \in Mcrs : \A b \in blocks : Cardinality(CurrentRows(r, b)) = 1

\* resident r is on an SR posting in some month of the year
has_sr(r) == MonthsOn(r, SrPostings(r)) > 0

\* the residents whose year is stage 2 and who have an SR preference
Stage2WithSrPreference ==
  {r \in Mcrs : career_progress[r].stage = 2 /\ SrPreferenceBases(r) # {}}

\* C17: the objective of a returned solution contains, for every resident whose year is
\* stage 2 and who has an SR preference, the term
\* -sr_y2_not_selected_penalty * (1 - has_sr): it is the objective under the same weights
\* with that penalty at 0, less the penalty for each such resident without an SR posting.
C17_SrPenaltyInObjective ==
  Returned =>
    Objective(x, off, weightages)
      = Objective(x, off, [weightages EXCEPT !.sr_y2_not_selected_penalty = 0])
          - SumOver([r \in Stage2WithSrPreference |->
                       weightages.sr_y2_not_selected_penalty * (1 - Bit(has_sr(r)))],
                    Stage2WithSrPreference)

\* C18: allocate_timetable returns success = true, with the post-processed solution, if
\* and only if the solver status is OPTIMAL or FEASIBLE; on any other status it returns
\* exactly {success: false, error: <string>}, without a schedule.
C18_SuccessIffSolution ==
  pc = "done" =>
    /\ result.success <=> status \in {"OPTIMAL", "FEASIBLE"}
    /\ result.success => result = compute_postprocess
    /\ ~result.success => (DOMAIN result = {"success", "error"} /\ result.error # "")

\* allocate_timetable has returned failure on the status INFEASIBLE
C18_Witness == pc = "done" /\ status = "INFEASIBLE" /\ ~result.success

\* every maximal run of 1s of the 0/1 sequence seq has length d
EveryRunExact(seq, d) ==
  \A b \in DOMAIN seq :
    (seq[b] = 1 /\ (b = 1 \/ seq[b - 1] = 0)) =>
      /\ b + d - 1 <= Len(seq)
      /\ \A k \in b..(b + d - 1) : seq[k] = 1
      /\ (b + d <= Len(seq) => seq[b + d] = 0)

\* C19: for d in {2, 3} the run automaton accepts a 12-month 0/1 sequence exactly when
\* every maximal run of 1s in it has length d, a last run that ends at month 12 included.
\* Stated for the sequences the search hands to the automaton: the eleven decided months
\* of a resident and a posting, followed by either value for month 12.
C19_AutomatonAcceptsExactRuns ==
  pc = "search" =>
    \A r \in Mcrs : \A p \in posting_codes :
      (Len(x[r]) = 11 /\ Dur(p) \in {2, 3}) =>
        \A v \in {0, 1} :
          LET seq == Append(XSeq(x, r, p), v)
          IN AddAutomaton(seq, 0, RunFinalStates(Dur(p)), RunTransitions(Dur(p)))
               <=> EveryRunExact(seq, Dur(p))

\* the months in which the indicator of posting group G goes from 0 to 1
Entries(r, G) == {b \in blocks : RunStart(r, G, b)}

\* C20: in a returned solution, for every resident and each of the groups MICU+RCCM,
\* ED+GRM and ED+GRM+GM, the months on a posting of the group form one contiguous
\* interval or none: the group's indicator does not become 1 again after it went back to 0.
C20_GroupsContiguous ==
  Returned =>
    \A r \in Mcrs :
      /\ Cardinality(Entries(r, micu_rccm)) <= 1
      /\ Cardinality(Entries(r, ED_codes \cup GRM_codes)) <= 1
      /\ Cardinality(Entries(r, Bundle)) <= 1

\* a returned year with all three groups present, the MICU/RCCM months over more than one
\* month, a GM month in the bundle, and months after the bundle's interval
C20_Witness ==
  /\ Returned
  /\ \E r \in Mcrs :
       /\ MonthsOn(r, micu_rccm) >= 2
       /\ MonthsOn(r, ED_codes \cup GRM_codes) >= 2
       /\ MonthsOn(r, GM_codes) >= 1
       /\ \E b \in Entries(r, Bundle) : b + MonthsOn(r, Bundle) <= 12

\* the months of the year of resident r in career stage s, the months of the set B that r
\* spends on a posting of the base, and the blocks of the base served in the earlier years
StageMonths(r, s) == {b \in blocks : StageAt(r, b) = s}
BaseBlocks(r, base, B) == Cardinality({b \in B : \E p \in x[r][b] : p.base = base})
PastBase(r, base) == PastBlocks(r, {p \in posting_codes : p.base = base})
IcuPair(r, B) == <<BaseBlocks(r, "MICU", B), BaseBlocks(r, "RCCM", B)>>
NoFirstPack(r) == ~(PastBase(r, "MICU") = 1 /\ PastBase(r, "RCCM") = 2)

\* C21: in a returned solution, for every resident with h_M and h_R historical MICU and
\* RCCM blocks: (a) the (MICU, RCCM) blocks within the stage-1 months are (1, 2) or
\* (0, 0); (b) when the year has a stage-2 month and no first pack was done, the blocks
\* within the stage-1 and stage-2 months are exactly (1, 2), otherwise the blocks within
\* the stage-2 months are (2, 1) or (0, 0); (c) when the year has a stage-3 month, the
\* year's MICU blocks are max(0, 3 - h_M) and its RCCM blocks max(0, 3 - h_R).
C21_PackByStage ==
  Returned =>
    \A r \in Mcrs :
      LET s1 == StageMonths(r, 1)
          s2 == StageMonths(r, 2)
          s3 == StageMonths(r, 3)
      IN /\ IcuPair(r, s1) \in {<<1, 2>>, <<0, 0>>}
         /\ s2 # {} =>
              IF NoFirstPack(r)
              THEN IcuPair(r, s1 \cup s2) = <<1, 2>>
              ELSE IcuPair(r, s2) \in {<<2, 1>>, <<0, 0>>}
         /\ s3 # {} =>
              IcuPair(r, blocks) = <<Max(0, 3 - PastBase(r, "MICU")), Max(0, 3 - PastBase(r, "RCCM"))>>

\* a returned year whose first pack, forced by the stage-2 months, lies in those months
C21_Witness ==
  /\ Returned
  /\ \E r \in Mcrs :
       /\ StageMonths(r, 1) # {}
       /\ NoFirstPack(r)
       /\ IcuPair(r, StageMonths(r, 2)) = <<1, 2>>

\* the residents on posting p at month b of the returned year, and the spread of that
\* number over the months of a half of the year
NumIn(p, b) == Cardinality({r \in Mcrs : p \in x[r][b]})
Spread(p, half) == MaxOf({NumIn(p, b) : b \in half}) - MinOf({NumIn(p, b) : b \in half})

\* C22: in a returned solution, for every posting whose base is neither GM nor ED, the
\* largest number of residents on the posting in a month of 1..6 exceeds the smallest by
\* at most 4, and likewise over the months 7..12.
C22_Balance ==
  Returned =>
    \A p \in posting_codes :
      p.base \notin {"GM", "ED"} => Spread(p, 1..6) <= 4 /\ Spread(p, 7..12) <= 4

\* a returned year with a spread of exactly 4 on a posting that has a place for a fifth
C22_Witness ==
  /\ Returned
  /\ \E p \in posting_codes :
       /\ p.base \notin {"GM", "ED"}
       /\ Spread(p, 1..6) = 4
       /\ \E b \in 1..6 : NumIn(p, b) = 4 /\ posting_info[p].max_residents > 4

\* reserved_leave[p][b]: the declared leave entries of month b that name posting p
ReservedLeave(p, b) ==
  Cardinality({i \in DOMAIN resident_leaves :
                 resident_leaves[i].month_block = b /\ resident_leaves[i].posting_code = p})

\* C23: in a returned solution, for every posting p and month b, the residents on p at b
\* are at most max_residents[p] - reserved_leave[p][b].
C23_CapacityLessLeave ==
  Returned =>
    \A p \in posting_codes : \A b \in blocks :
      NumIn(p, b) <= posting_info[p].max_residents - ReservedLeave(p, b)

\* C23 as amended: in a returned solution, for every posting p and month b, the
\* residents on p at b are at most max(0, max_residents[p] - reserved_leave[p][b]).
C23_CapacityLessLeaveCapped ==
  Returned =>
    \A p \in posting_codes : \A b \in blocks :
      NumIn(p, b) <= Max(0, posting_info[p].max_residents - ReservedLeave(p, b))

\* a returned year in which a leave reserves one of two places and the other is taken
C23_Witness ==
  /\ Returned
  /\ \E p \in posting_codes : \E b \in blocks :
       /\ ReservedLeave(p, b) = 1
       /\ posting_info[p].max_residents = 2
       /\ NumIn(p, b) = 1

\* the months of the returned year in which resident r has a posting, and the resident's
\* career_blocks_completed in the output
AssignedMonths(r) == {b \in blocks : x[r][b] # {} /\ ~off[r][b]}
OutputCompleted(r) ==
  result.residents[CHOOSE i \in DOMAIN result.residents : result.residents[i].mcr = r]
    .career_blocks_completed

\* C24: in the output of a successful solve, for every resident with input
\* career_blocks_completed = c and k assigned months, the career blocks of the assigned
\* current-year rows in month order are c+1, ..., c+k, every leave or off row carries the
\* value reached so far, and the output career_blocks_completed is c + k.
C24_CareerCounter ==
  Returned =>
    \A r \in Mcrs :
      LET c == Resident(r).career_blocks_completed
      IN /\ \A i \in DOMAIN result.resident_history :
              LET row == result.resident_history[i]
                  b == row.month_block
                  upto == IF row.is_leave \/ row.posting_code = NoCode THEN b - 1 ELSE b
              IN (row.mcr = r /\ row.is_current_year)
                   => row.career_block = c + Cardinality({m \in 1..upto : m \in AssignedMonths(r)})
         /\ OutputCompleted(r) = c + Cardinality(AssignedMonths(r))

\* the months of the returned year in which resident r is on a variant of one of the
\* bases of the resident's SR preferences
SrBases(r) == {sr_pref_map(r)[k].base : k \in DOMAIN sr_pref_map(r)}
SrMonths(r) == {b \in blocks : \E p \in x[r][b] : p.base \in SrBases(r)}

\* C25: in every returned solution, every resident with SR preferences has at most one SR
\* run in the year: the months assigned to variants of the resident's SR-preference bases
\* form at most one maximal run.
C25_OneSrRun ==
  Returned =>
    \A r \in Mcrs :
      \A a \in SrMonths(r) : \A c \in SrMonths(r) : \A b \in a..c : b \in SrMonths(r)

\* every posting has a place for every resident of the cohort
AmpleCapacity == \A p \in posting_codes : posting_info[p].max_residents >= Len(residents)

\* C28: the MICU/RCCM stage-pack rule never conflicts with the core quota rule: a resident
\* whose year contains a stage-2 month, whatever MICU and RCCM blocks (0..3 each) the
\* history holds, never makes the model infeasible when capacity is ample.
C28_PackFitsQuota ==
  (pc = "done" /\ AmpleCapacity /\ \E r \in Mcrs : 2 \in stages_present(r))
    => status # "INFEASIBLE"

\* the ccr_status the output reports for resident r
OutputCcr(r) ==
  result.residents[CHOOSE i \in DOMAIN result.residents : result.residents[i].mcr = r]
    .ccr_status

\* C29: in the output of a successful solve, every resident whom the solver treated as
\* CCR-complete (some CCR posting is_completed in the progress of the history) or to whom
\* it assigned a CCR run has ccr_status.completed = true; hence so has every resident whose
\* year has a month of stage >= 2.
C29_CcrReported ==
  Returned =>
    \A r \in Mcrs :
      /\ (done_ccr(r) \/ \E b \in blocks : x[r][b] \cap CCR_POSTINGS # {})
           => OutputCcr(r).completed
      /\ stage2_plus_blocks(r) # {} => OutputCcr(r).completed

\* the career_blocks_completed of resident r in the cached inputs of the original upload
UploadedBlocks(r) ==
  LET rs == store.latest_inputs.residents
  IN rs[CHOOSE i \in DOMAIN rs : rs[i].mcr = r].career_blocks_completed

C30_FailedSolveKeepsStore ==
  (pc = "idle" /\ response \in {400, 500}) => store = request.before

----------------------------------------------------------------------------
(* The validator of validate.py for one resident's year.  The payload      *)
(* carries resident_mcr, the rows of current_year ([month_block,           *)
(* posting_code]), residents and resident_history; its postings are the    *)
(* table posting_info is built from.                                       *)

\* the maximal runs <<start, length>> of a set of months
runs_of(occ) ==
  {sl \in blocks \X blocks :
     /\ \A b \in sl[1]..(sl[1] + sl[2] - 1) : b \in occ
     /\ (sl[1] - 1) \notin occ
     /\ (sl[1] + sl[2]) \notin occ}

\* the months form a single interval
single_interval(S) == \A a \in S : \A c \in S : \A b \in a..c : b \in S

\* the rows of current_year that are malformed: a month outside 1..12, no posting code, or
\* the month of an earlier well-formed row
input_violations(mcr, current_year) ==
  LET ok(i) == current_year[i].month_block \in blocks /\ current_year[i].posting_code # NoCode
  IN {i \in 1..Len(current_year) :
        \/ ~ok(i)
        \/ \E j \in 1..(i - 1) :
             ok(j) /\ current_year[j].month_block = current_year[i].month_block}

\* main: the codes of the violations found
validate(mcr, current_year, rs, hist) ==
  LET by_block ==
        [b \in {current_year[i].month_block : i \in 1..Len(current_year)} |->
           current_year[CHOOSE i \in 1..Len(current_year) : current_year[i].month_block = b]
             .posting_code]
      months == DOMAIN by_block
      codes == {by_block[b] : b \in months}
      occurrences(code) == {b \in months : by_block[b] = code}
      dur(code) == IF code \in posting_codes THEN Dur(code) ELSE 1
      type(code) == IF code \in posting_codes THEN posting_info[code].posting_type ELSE ""
      \* local-only checks
      run_rules ==
        UNION {UNION {(IF dur(code) > 1 /\ sl[1] <= 6 /\ sl[1] + sl[2] - 1 >= 7
                       THEN {"HC8"} ELSE {})
                      \cup (IF dur(code) = 3 /\ sl[1] \notin quarter_starts
                            THEN {"HC10"} ELSE {})
                      \cup (IF dur(code) > 1 /\ sl[2] # dur(code) THEN {"HC3"} ELSE {})
                      \cup (IF code.base = "GRM" /\ sl[1] % 2 = 0 THEN {"HC9"} ELSE {}) :
                        sl \in runs_of(occurrences(code))} : code \in codes}
      ed_grm_blocks == {b \in months : by_block[b].base \in {"ED", "GRM"}}
      ed_grm ==
        (IF 6 \in ed_grm_blocks /\ 7 \in ed_grm_blocks THEN {"HC8"} ELSE {})
        \cup (IF ~single_interval(ed_grm_blocks) THEN {"HC12"} ELSE {})
      micu_blocks == {b \in months : by_block[b].base = "MICU"}
      rccm_blocks == {b \in months : by_block[b].base = "RCCM"}
      comb_blocks == micu_blocks \cup rccm_blocks
      micu_rccm_rules ==
        (IF 6 \in comb_blocks /\ 7 \in comb_blocks THEN {"HC8"} ELSE {})
        \cup (IF ~single_interval(comb_blocks) THEN {"HC7b"} ELSE {})
        \cup (IF /\ micu_blocks # {}
                 /\ rccm_blocks # {}
                 /\ Cardinality({by_block[b].inst : b \in comb_blocks}) # 1
              THEN {"HC7a"} ELSE {})
      \* resident and history aware checks
      aware == rs # <<>> /\ hist # <<>> /\ posting_codes # {}
      known == {i \in 1..Len(rs) : rs[i].mcr = mcr}
      resident_year ==
        IF known = {} THEN 0
        ELSE rs[CHOOSE i \in known : \A j \in known : j <= i].resident_year
      past_only == SelectSeq(hist, LAMBDA h : h.mcr = mcr /\ ~_truthy(h.is_current_year))
      past_prog == parse_resident_history(past_only)
      core_cap ==
        {"HC5" : base \in
           {base \in CORE_BASES :
              get_core_blocks_completed(past_prog, mcr, base)
                + Cardinality({b \in months : type(by_block[b]) = "core" /\ by_block[b].base = base})
              > CORE_REQUIREMENTS[base]}}
      completed_elective_bases ==
        {p.base : p \in get_unique_electives_completed(past_prog, mcr)}
      elective_once ==
        {"HC6" : b \in {b \in months : /\ type(by_block[b]) = "elective"
                                        /\ by_block[b].base \in completed_elective_bases}}
      validator_done_ccr == get_ccr_postings_completed(past_prog, mcr) # {}
      ccr_runs ==
        Cardinality(runs_of({b \in months : by_block[b] \in CCR_POSTINGS \cap posting_codes}))
      ccr_rule ==
        IF validator_done_ccr \/ resident_year = 1
        THEN (IF ccr_runs > 0 THEN {"HC4"} ELSE {})
        ELSE (IF ccr_runs # 1 THEN {"HC4"} ELSE {})
      gm_cap ==
        IF resident_year = 1 /\ Cardinality({b \in months : by_block[b].base = "GM"}) > 3
        THEN {"HC11"} ELSE {}
      \* cohort-aware check: the current-year rows of the others and the proposed months
      others == {i \in 1..Len(hist) : /\ _truthy(hist[i].is_current_year)
                                      /\ hist[i].mcr # mcr
                                      /\ hist[i].posting_code # NoCode
                                      /\ hist[i].month_block \in blocks}
      filled(p, b) ==
        Cardinality({i \in others : hist[i].posting_code = p /\ hist[i].month_block = b})
          + (IF b \in months /\ by_block[b] = p THEN 1 ELSE 0)
      max_r(p) == IF p \in posting_codes THEN posting_info[p].max_residents ELSE 0
      capacity ==
        {"HC2" : pb \in
           {pb \in (codes \cup {hist[i].posting_code : i \in others}) \X blocks :
              filled(pb[1], pb[2]) > max_r(pb[1])}}
      violations ==
        run_rules \cup ed_grm \cup micu_rccm_rules
          \cup (IF aware
                THEN core_cap \cup elective_once \cup ccr_rule \cup gm_cap \cup capacity
                ELSE {})
  IN IF mcr = "" \/ input_violations(mcr, current_year) # {}
     THEN [success |-> FALSE, violations |-> {"INPUT"}]
     ELSE [success |-> violations = {}, violations |-> violations]

\* the year of resident r in a returned solution, as the rows of current_year
RECURSIVE YearRows(_, _)
YearRows(r, b) ==
  IF b = 0 THEN <<>>
  ELSE IF x[r][b] = {} THEN YearRows(r, b - 1)
  ELSE Append(YearRows(r, b - 1),
              [month_block |-> b, posting_code |-> CHOOSE p \in x[r][b] : TRUE])

\* C26: the validator checks only a subset of the solver's hard constraints: every
\* 12-month schedule of one resident that satisfies all hard constraints of the scheduler
\* is accepted by the validator, given the same residents, history and postings, with
\* success = true and no violations.
C26_ValidatorAcceptsSolutions ==
  Returned =>
    \A r \in Mcrs :
      validate(r, YearRows(r, 12), residents, resident_history)
        = [success |-> TRUE, violations |-> {}]

====
